---- MODULE Spec2Model ----
(***************************************************************************)
(* State-machine model of the security / occurrence-tracking REST backend  *)
(* (backend/server.py) and of the admin reset script (reset_admin.py).     *)
(*                                                                         *)
(* The document store is modelled as one sequence per collection, in       *)
(* insertion (natural) order; find_one answers the first matching          *)
(* document.  No collection has a unique index: the code creates none.     *)
(* Every request handler is split at its awaits on the store: one action   *)
(* per store access, so that two requests can interleave exactly where     *)
(* the event loop can switch between them.  req[p] is the request that     *)
(* worker slot p is handling (or last answered).                           *)
(***************************************************************************)
EXTENDS Integers, Sequences, FiniteSets, TLC

\* ------------------------------------------------------------ constants

ACCESS_TOKEN_EXPIRE_MINUTES == 480

\* the length the occurrence, round and shift listings pass to to_list
ListLength == 1000

\* "admin-001", the fixed id reset_admin.py gives the admin it inserts.
\* uuid4 ids are the positive integers (see uuid4).
ADMIN_RESET_ID == 0

\* ---------------------------------------------------------------- bounds

\* minutes the clock advances in one Tick
TickMinutes == 240
\* the clock stops after this many ticks
MaxTicks == 2
\* audit records the store may hold (every mutating request appends one)
MaxAudit == 4
\* worker slots handling requests at the same time
NProcs == 2
\* user documents whose ativo flag is cleared at the same time
MaxInactive == 1
\* access tokens the clients hold (login is not tried once they hold this many)
MaxTokens == 2

\* ----------------------------------------------------------------- enums

VIGILANTE == "vigilante"
SUPERVISOR == "supervisor"
ADMINISTRADOR == "administrador"
UserRole == {VIGILANTE, SUPERVISOR, ADMINISTRADOR}

INICIADA == "iniciada"
EM_ANDAMENTO == "em_andamento"
CONCLUIDA == "concluida"
INTERROMPIDA == "interrompida"
RoundStatus == {INICIADA, EM_ANDAMENTO, CONCLUIDA, INTERROMPIDA}

BAIXA == "baixa"
MEDIA == "media"
ALTA == "alta"
CRITICA == "critica"
Priority == {BAIXA, MEDIA, ALTA, CRITICA}

ATIVO == "ativo"
INATIVO == "inativo"
PAUSA == "pausa"
ShiftStatus == {ATIVO, INATIVO, PAUSA}

\* Optional[T]: None is the empty sequence, a present value x is <<x>>.
None == <<>>
Some(x) == <<x>>

Procs == 1..NProcs

VARIABLES
    users,        \* db.users: Seq of [id, email, role, ativo, senha, ultimo_login]
    uuidCount,    \* how many user ids uuid4 has handed out
    rounds,       \* db.rounds: Seq of [id, vigilante_id, status, inicio, fim, created_at]
    shifts,       \* db.shifts: Seq of [id, vigilante_id, status, inicio, fim, created_at]
    occurrences,  \* db.occurrences
    locations,    \* db.locations
    audit_logs,   \* db.audit_logs: Seq of [usuario_id, acao, recurso, timestamp]
    tokens,       \* the access tokens login has returned to clients
    now,          \* datetime.now(timezone.utc), in minutes
    resetPc,      \* position of the reset_admin.py script
    req           \* req[p]: the request worker slot p is handling

store == <<users, uuidCount, rounds, shifts, occurrences, locations, audit_logs>>
vars == <<users, uuidCount, rounds, shifts, occurrences, locations, audit_logs,
          tokens, now, resetPc, req>>

\* ------------------------------------------------------ store primitives

Matches(coll, P(_)) == {i \in 1..Len(coll) : P(coll[i])}

\* collection.find_one(filter): index of the first matching document, 0 for None
find_one(coll, P(_)) ==
    IF Matches(coll, P) = {} THEN 0
    ELSE CHOOSE i \in Matches(coll, P) : \A j \in Matches(coll, P) : i <= j

\* collection.update_one(filter, {"$set": ...}): the first match is rewritten
update_one(coll, P(_), Set(_)) ==
    LET i == find_one(coll, P)
    IN  IF i = 0 THEN coll ELSE [coll EXCEPT ![i] = Set(coll[i])]

\* collection.delete_one(filter): the first match is removed
delete_one(coll, P(_)) ==
    LET i == find_one(coll, P)
    IN  IF i = 0 THEN coll
        ELSE [k \in 1..(Len(coll) - 1) |-> IF k < i THEN coll[k] ELSE coll[k + 1]]

\* str(uuid.uuid4()): a fresh id, the n-th one handed out
uuid4(n) == n + 1

\* ------------------------------------------------------------- passwords

\* pwd_context.hash: a one-way value that is never the plaintext
get_password_hash(password) == <<"bcrypt", password>>

verify_password(plain_password, hashed_password) ==
    hashed_password = <<"bcrypt", plain_password>>

\* ---------------------------------------------------------------- tokens

NoToken == [kind |-> "none", sig |-> "", sub |-> None, exp |-> 0]

\* mutant: the lifetime in minutes is added as if it were seconds
create_access_token_MinutesAsSeconds(sub, expires_delta) ==
    [kind |-> "jwt", sig |-> "ok", sub |-> sub, exp |-> now + (expires_delta \div 60)]

\* jwt.encode of {"sub": ..., "exp": now + expires_delta} under SECRET_KEY
create_access_token(sub, expires_delta) ==
    [kind |-> "jwt", sig |-> "ok", sub |-> sub, exp |-> now + expires_delta]

\* mutant: the expiry is not verified
jwt_decode_NoExpiry(tok) ==
    /\ tok.kind = "jwt"
    /\ tok.sig = "ok"

\* jwt.decode(..., SECRET_KEY): TRUE when no PyJWTError is raised
\* (well formed, signed with the key, not expired: PyJWT raises when exp <= now)
jwt_decode(tok) ==
    /\ tok.kind = "jwt"
    /\ tok.sig = "ok"
    /\ now < tok.exp

NoUser == [id |-> 0 - 1, role |-> ""]

\* User(**user), as far as the handlers read it
UserOf(doc) == [id |-> doc.id, role |-> doc.role]

\* mutant: the gate turns away a user whose ativo flag is false
get_current_user_ChecksAtivo(tok) ==
    IF ~jwt_decode(tok) \/ tok.sub = None
    THEN [ok |-> FALSE, user |-> NoUser]
    ELSE LET i == find_one(users, LAMBDA u : u.id = tok.sub[1])
         IN  IF i = 0 \/ ~users[i].ativo THEN [ok |-> FALSE, user |-> NoUser]
             ELSE [ok |-> TRUE, user |-> UserOf(users[i])]

\* get_current_user: [ok |-> FALSE] is the 401 credentials_exception
get_current_user(tok) ==
    IF ~jwt_decode(tok) \/ tok.sub = None
    THEN [ok |-> FALSE, user |-> NoUser]
    ELSE LET i == find_one(users, LAMBDA u : u.id = tok.sub[1])
         IN  IF i = 0 THEN [ok |-> FALSE, user |-> NoUser]
             ELSE [ok |-> TRUE, user |-> UserOf(users[i])]

\* mutant: the role check lets every authenticated user through
require_role_AnyRole(required_roles, current_user) ==
    current_user.role \in UserRole

\* require_role(required_roles): TRUE when role_checker lets the user through
require_role(required_roles, current_user) ==
    current_user.role \in required_roles

\* ------------------------------------------------------------ seeding

NewUser(id, email, role, senha) ==
    [id |-> id, email |-> email, role |-> role, ativo |-> TRUE,
     senha |-> get_password_hash(senha), ultimo_login |-> None]

\* create_initial_data, users part: [users, count] after the startup event
SeedAdmin(s) ==
    IF find_one(s.users, LAMBDA u : u.role = ADMINISTRADOR) = 0
    THEN [users |-> Append(s.users, NewUser(uuid4(s.count), "admin@sistema.com",
                                            ADMINISTRADOR, "sales761")),
          count |-> s.count + 1]
    ELSE s

SeedSupervisor(s) ==
    IF find_one(s.users, LAMBDA u : u.email = "supervisor@sistema.com") = 0
    THEN [users |-> Append(s.users, NewUser(uuid4(s.count), "supervisor@sistema.com",
                                            SUPERVISOR, "supervisor123")),
          count |-> s.count + 1]
    ELSE s

SeedVigilante(s) ==
    IF find_one(s.users, LAMBDA u : u.email = "vigilante@sistema.com") = 0
    THEN [users |-> Append(s.users, NewUser(uuid4(s.count), "vigilante@sistema.com",
                                            VIGILANTE, "vigilante123")),
          count |-> s.count + 1]
    ELSE s

create_initial_data_users(s) == SeedVigilante(SeedSupervisor(SeedAdmin(s)))

DefaultLocations ==
    << "Portaria Principal", "Estacionamento", "Area Externa", "Recepcao" >>

\* create_initial_data, locations part
create_initial_data_locations(locs) ==
    IF Len(locs) = 0
    THEN [k \in 1..Len(DefaultLocations) |-> [nome |-> DefaultLocations[k], ativo |-> TRUE]]
    ELSE locs

\* --------------------------------------------------------------- requests

IdleReq ==
    [op |-> "", pc |-> "idle", tok |-> NoToken, user |-> NoUser, rid |-> 0,
     email |-> "", senha |-> "", role |-> "", arg |-> "", status |-> 0,
     out |-> NoToken, body |-> <<>>]

Free(p) == req[p].pc \in {"idle", "done"}

\* the operations that end by appending an audit record
MutatingOps ==
    {"login", "register", "change_password", "start_shift", "finish_shift",
     "create_location", "create_occurrence", "resolve_occurrence",
     "upload_occurrence_photo", "start_round", "finish_round"}

InFlightMutating == Cardinality({q \in Procs : ~Free(q) /\ req[q].op \in MutatingOps})

\* the audit collection has room for one more mutating request
AuditRoom == Len(audit_logs) + InFlightMutating < MaxAudit

\* the clients hold fewer tokens than the bound, counting the logins in flight
TokenRoom ==
    Cardinality(tokens) + Cardinality({q \in Procs : ~Free(q) /\ req[q].op = "login"})
        < MaxTokens

\* the action tag and resource tag each handler passes to log_audit
AuditTag(op) ==
    CASE op = "login" -> <<"LOGIN", "auth">>
      [] op = "register" -> <<"CREATE_USER", "users">>
      [] op = "change_password" -> <<"CHANGE_PASSWORD", "users">>
      [] op = "start_shift" -> <<"START_SHIFT", "shifts">>
      [] op = "finish_shift" -> <<"FINISH_SHIFT", "shifts">>
      [] op = "create_location" -> <<"CREATE_LOCATION", "locations">>
      [] op = "create_occurrence" -> <<"CREATE_OCCURRENCE", "occurrences">>
      [] op = "resolve_occurrence" -> <<"RESOLVE_OCCURRENCE", "occurrences">>
      [] op = "upload_occurrence_photo" -> <<"UPLOAD_PHOTO", "occurrences">>
      [] op = "start_round" -> <<"START_ROUND", "rounds">>
      [] op = "finish_round" -> <<"FINISH_ROUND", "rounds">>

\* tokens a client can present: the ones login returned, and ones it makes up
ForgedTokens ==
    {[kind |-> "malformed", sig |-> "", sub |-> None, exp |-> 0],
     [kind |-> "jwt", sig |-> "ok", sub |-> None, exp |-> now + ACCESS_TOKEN_EXPIRE_MINUTES]}
    \cup {[kind |-> "jwt", sig |-> "bad", sub |-> Some(users[i].id),
           exp |-> now + ACCESS_TOKEN_EXPIRE_MINUTES] : i \in 1..Len(users)}

Presentable == tokens \cup ForgedTokens

\* The request arrives at slot p with bearer token tok: the dependencies
\* get_current_user and require_role(roles) run before the handler body.
Arrive(p, op, tok, roles, first, rid) ==
    /\ Free(p)
    /\ LET g == get_current_user(tok)
           r == [IdleReq EXCEPT !.op = op, !.tok = tok, !.rid = rid]
       IN  req' = [req EXCEPT ![p] =
                IF ~g.ok THEN [r EXCEPT !.pc = "done", !.status = 401]
                ELSE IF ~require_role(roles, g.user)
                     THEN [r EXCEPT !.pc = "done", !.status = 403, !.user = g.user]
                     ELSE [r EXCEPT !.pc = first, !.user = g.user]]
    /\ UNCHANGED <<store, tokens, now, resetPc>>

\* the handler raises HTTPException(status_code = code)
Raise(p, code) == req' = [req EXCEPT ![p].pc = "done", ![p].status = code]

\* mutant: the handler records the action twice
log_audit_Twice(p) ==
    /\ req[p].pc = "audit"
    /\ req[p].op # "login"
    /\ LET rec == [usuario_id |-> req[p].user.id, acao |-> AuditTag(req[p].op)[1],
                   recurso |-> AuditTag(req[p].op)[2], timestamp |-> now]
       IN  audit_logs' = audit_logs \o <<rec, rec>>
    /\ req' = [req EXCEPT ![p].pc = "done", ![p].status = 200]
    /\ UNCHANGED <<users, uuidCount, rounds, shifts, occurrences, locations,
                   tokens, now, resetPc>>

\* log_audit(current_user.id, ..., action, resource), then the handler returns
log_audit(p) ==
    /\ req[p].pc = "audit"
    /\ req[p].op # "login"
    /\ audit_logs' = Append(audit_logs,
            [usuario_id |-> req[p].user.id, acao |-> AuditTag(req[p].op)[1],
             recurso |-> AuditTag(req[p].op)[2], timestamp |-> now])
    /\ req' = [req EXCEPT ![p].pc = "done", ![p].status = 200]
    /\ UNCHANGED <<users, uuidCount, rounds, shifts, occurrences, locations,
                   tokens, now, resetPc>>

\* log_audit when db.audit_logs.insert_one raises (the store is unreachable or
\* refuses the write): no handler catches the exception, so the request is
\* answered 500 after the writes it has already made
log_audit_fails(p) ==
    /\ req[p].pc = "audit"
    /\ Raise(p, 500)
    /\ UNCHANGED <<store, tokens, now, resetPc>>

\* ------------------------------------------------------------------ login

\* mutant: the ativo flag is not checked
login_NoAtivoCheck(p, email, senha) ==
    /\ Free(p)
    /\ AuditRoom
    /\ TokenRoom
    /\ LET i == find_one(users, LAMBDA u : u.email = email)
           r == [IdleReq EXCEPT !.op = "login", !.email = email, !.senha = senha]
       IN  req' = [req EXCEPT ![p] =
                IF i = 0 \/ ~verify_password(senha, users[i].senha)
                THEN [r EXCEPT !.pc = "done", !.status = 401]
                ELSE [r EXCEPT !.pc = "lg_update", !.user = UserOf(users[i])]]
    /\ UNCHANGED <<store, tokens, now, resetPc>>

\* login, up to its first write: find the user, verify password, check ativo
login(p, email, senha) ==
    /\ Free(p)
    /\ AuditRoom
    /\ TokenRoom
    /\ LET i == find_one(users, LAMBDA u : u.email = email)
           r == [IdleReq EXCEPT !.op = "login", !.email = email, !.senha = senha]
       IN  req' = [req EXCEPT ![p] =
                IF i = 0 \/ ~verify_password(senha, users[i].senha)
                THEN [r EXCEPT !.pc = "done", !.status = 401]
                ELSE IF ~users[i].ativo
                     THEN [r EXCEPT !.pc = "done", !.status = 401]
                     ELSE [r EXCEPT !.pc = "lg_update", !.user = UserOf(users[i])]]
    /\ UNCHANGED <<store, tokens, now, resetPc>>

\* login: db.users.update_one({"id": user["id"]}, {"$set": {"ultimo_login": now}})
login_update(p) ==
    /\ req[p].pc = "lg_update"
    /\ users' = update_one(users, LAMBDA u : u.id = req[p].user.id,
                           LAMBDA u : [u EXCEPT !.ultimo_login = Some(now)])
    /\ req' = [req EXCEPT ![p].pc = "audit"]
    /\ UNCHANGED <<uuidCount, rounds, shifts, occurrences, locations, audit_logs,
                   tokens, now, resetPc>>

\* login: create_access_token, log_audit(..., "LOGIN", "auth"), return the token
login_audit(p) ==
    /\ req[p].pc = "audit"
    /\ req[p].op = "login"
    /\ LET t == create_access_token(Some(req[p].user.id), ACCESS_TOKEN_EXPIRE_MINUTES)
       IN  /\ tokens' = tokens \cup {t}
           /\ req' = [req EXCEPT ![p].pc = "done", ![p].status = 200, ![p].out = t]
    /\ audit_logs' = Append(audit_logs,
            [usuario_id |-> req[p].user.id, acao |-> AuditTag("login")[1],
             recurso |-> AuditTag("login")[2], timestamp |-> now])
    /\ UNCHANGED <<users, uuidCount, rounds, shifts, occurrences, locations,
                   now, resetPc>>

\* ----------------------------------------------------------------- rounds

\* mutant: the filter names only one of the two active statuses
ActiveRound_OnlyEmAndamento(r, uid) == r.vigilante_id = uid /\ r.status = EM_ANDAMENTO

\* the filter of start_round's find_one
ActiveRound(r, uid) == r.vigilante_id = uid /\ r.status \in {INICIADA, EM_ANDAMENTO}

\* POST /rounds arrives
start_round(p, tok) ==
    /\ AuditRoom
    /\ Arrive(p, "start_round", tok, UserRole, "sr_check", 0)

\* mutant: the filter forgets the status, so any earlier round blocks a new one
start_round_check_AnyStatus(p) ==
    /\ req[p].pc = "sr_check"
    /\ IF find_one(rounds, LAMBDA r : r.vigilante_id = req[p].user.id) # 0
       THEN Raise(p, 400)
       ELSE req' = [req EXCEPT ![p].pc = "sr_insert"]
    /\ UNCHANGED <<store, tokens, now, resetPc>>

\* start_round: active_round = find_one(...); 400 when there is one
start_round_check(p) ==
    /\ req[p].pc = "sr_check"
    /\ IF find_one(rounds, LAMBDA r : ActiveRound(r, req[p].user.id)) # 0
       THEN Raise(p, 400)
       ELSE req' = [req EXCEPT ![p].pc = "sr_insert"]
    /\ UNCHANGED <<store, tokens, now, resetPc>>

\* mutant: a conditional write, the insert refuses when the user has an active round
start_round_insert_Conditional(p) ==
    /\ req[p].pc = "sr_insert"
    /\ IF find_one(rounds, LAMBDA r : ActiveRound(r, req[p].user.id)) # 0
       THEN /\ Raise(p, 400)
            /\ UNCHANGED rounds
       ELSE /\ rounds' = Append(rounds,
                    [id |-> Len(rounds) + 1, vigilante_id |-> req[p].user.id,
                     status |-> INICIADA, inicio |-> now, fim |-> None, created_at |-> now])
            /\ req' = [req EXCEPT ![p].pc = "audit", ![p].rid = Len(rounds) + 1]
    /\ UNCHANGED <<users, uuidCount, shifts, occurrences, locations, audit_logs,
                   tokens, now, resetPc>>

\* start_round: db.rounds.insert_one(round_obj.dict())
start_round_insert(p) ==
    /\ req[p].pc = "sr_insert"
    /\ rounds' = Append(rounds,
            [id |-> Len(rounds) + 1, vigilante_id |-> req[p].user.id,
             status |-> INICIADA, inicio |-> now, fim |-> None, created_at |-> now])
    /\ req' = [req EXCEPT ![p].pc = "audit", ![p].rid = Len(rounds) + 1]
    /\ UNCHANGED <<users, uuidCount, shifts, occurrences, locations, audit_logs,
                   tokens, now, resetPc>>

\* PUT /rounds/{round_id}/finish arrives
finish_round(p, tok, round_id) ==
    /\ AuditRoom
    /\ Arrive(p, "finish_round", tok, UserRole, "fr_find", round_id)

\* mutant: the permission check is left out
finish_round_find_NoPermission(p) ==
    /\ req[p].pc = "fr_find"
    /\ LET i == find_one(rounds, LAMBDA r : r.id = req[p].rid)
       IN  IF i = 0 THEN Raise(p, 404)
           ELSE req' = [req EXCEPT ![p].pc = "fr_update"]
    /\ UNCHANGED <<store, tokens, now, resetPc>>

\* finish_round: find the round (404), check the permission (403)
finish_round_find(p) ==
    /\ req[p].pc = "fr_find"
    /\ LET i == find_one(rounds, LAMBDA r : r.id = req[p].rid)
       IN  IF i = 0 THEN Raise(p, 404)
           ELSE IF rounds[i].vigilante_id # req[p].user.id
                   /\ req[p].user.role \notin {SUPERVISOR, ADMINISTRADOR}
                THEN Raise(p, 403)
                ELSE req' = [req EXCEPT ![p].pc = "fr_update"]
    /\ UNCHANGED <<store, tokens, now, resetPc>>

\* mutant: a guarded transition, only an active round is finished
finish_round_update_OnlyActive(p) ==
    /\ req[p].pc = "fr_update"
    /\ rounds' = update_one(rounds,
            LAMBDA r : r.id = req[p].rid /\ r.status \in {INICIADA, EM_ANDAMENTO},
            LAMBDA r : [r EXCEPT !.fim = Some(now), !.status = CONCLUIDA])
    /\ req' = [req EXCEPT ![p].pc = "audit"]
    /\ UNCHANGED <<users, uuidCount, shifts, occurrences, locations, audit_logs,
                   tokens, now, resetPc>>

\* finish_round: update_one({"id": round_id}, {"$set": {"fim": now, "status": CONCLUIDA}})
finish_round_update(p) ==
    /\ req[p].pc = "fr_update"
    /\ rounds' = update_one(rounds, LAMBDA r : r.id = req[p].rid,
                            LAMBDA r : [r EXCEPT !.fim = Some(now), !.status = CONCLUIDA])
    /\ req' = [req EXCEPT ![p].pc = "audit"]
    /\ UNCHANGED <<users, uuidCount, shifts, occurrences, locations, audit_logs,
                   tokens, now, resetPc>>

\* ----------------------------------------------------------------- shifts

ActiveShift(s, uid) == s.vigilante_id = uid /\ s.status = ATIVO

\* POST /shifts arrives
start_shift(p, tok) ==
    /\ AuditRoom
    /\ Arrive(p, "start_shift", tok, UserRole, "ss_check", 0)

\* start_shift: active_shift = find_one(...); 400 when there is one
start_shift_check(p) ==
    /\ req[p].pc = "ss_check"
    /\ IF find_one(shifts, LAMBDA s : ActiveShift(s, req[p].user.id)) # 0
       THEN Raise(p, 400)
       ELSE req' = [req EXCEPT ![p].pc = "ss_insert"]
    /\ UNCHANGED <<store, tokens, now, resetPc>>

\* start_shift: db.shifts.insert_one(shift.dict())
start_shift_insert(p) ==
    /\ req[p].pc = "ss_insert"
    /\ shifts' = Append(shifts,
            [id |-> Len(shifts) + 1, vigilante_id |-> req[p].user.id,
             status |-> ATIVO, inicio |-> now, fim |-> None, created_at |-> now])
    /\ req' = [req EXCEPT ![p].pc = "audit", ![p].rid = Len(shifts) + 1]
    /\ UNCHANGED <<users, uuidCount, rounds, occurrences, locations, audit_logs,
                   tokens, now, resetPc>>

\* PUT /shifts/{shift_id}/finish arrives
finish_shift(p, tok, shift_id) ==
    /\ AuditRoom
    /\ Arrive(p, "finish_shift", tok, UserRole, "fs_find", shift_id)

\* finish_shift: find the shift (404), check the permission (403)
finish_shift_find(p) ==
    /\ req[p].pc = "fs_find"
    /\ LET i == find_one(shifts, LAMBDA s : s.id = req[p].rid)
       IN  IF i = 0 THEN Raise(p, 404)
           ELSE IF shifts[i].vigilante_id # req[p].user.id
                   /\ req[p].user.role \notin {SUPERVISOR, ADMINISTRADOR}
                THEN Raise(p, 403)
                ELSE req' = [req EXCEPT ![p].pc = "fs_update"]
    /\ UNCHANGED <<store, tokens, now, resetPc>>

\* finish_shift: update_one({"id": shift_id}, {"$set": {"fim": now, "status": INATIVO}})
finish_shift_update(p) ==
    /\ req[p].pc = "fs_update"
    /\ shifts' = update_one(shifts, LAMBDA s : s.id = req[p].rid,
                            LAMBDA s : [s EXCEPT !.fim = Some(now), !.status = INATIVO])
    /\ req' = [req EXCEPT ![p].pc = "audit"]
    /\ UNCHANGED <<users, uuidCount, rounds, occurrences, locations, audit_logs,
                   tokens, now, resetPc>>

\* --------------------------------------------------------------- cursors

Reverse(s) == [k \in 1..Len(s) |-> s[Len(s) + 1 - k]]

\* collection.find(filter): the matching documents in natural order
find(coll, P(_)) == SelectSeq(coll, P)

\* cursor.sort(key, -1).  Documents written under the same clock reading are
\* told apart by the sub-minute part of datetime.now: the later insert is newer.
sort_desc(docs, key) == SortSeq(Reverse(docs), LAMBDA a, b : a[key] > b[key])

\* cursor.to_list(length)
to_list(docs, length) ==
    SubSeq(docs, 1, IF Len(docs) < length THEN Len(docs) ELSE length)

\* the handler returns a list
Return(p, docs) == req' = [req EXCEPT ![p].pc = "done", ![p].status = 200, ![p].body = docs]

\* ------------------------------------------------------------ occurrences

\* Occurrence(**occurrence_data.dict(), usuario_id = ..., usuario_nome = ...)
Occurrence(id, prioridade, usuario_id, created_at) ==
    [id |-> id, prioridade |-> prioridade, fotos |-> <<>>, usuario_id |-> usuario_id,
     resolvida |-> FALSE, data_resolucao |-> None, observacoes_resolucao |-> None,
     created_at |-> created_at]

\* OccurrenceCreate.prioridade: Priority = Priority.MEDIA
PrioridadeOf(given) == IF given = None THEN MEDIA ELSE given[1]

\* POST /occurrences arrives; prioridade is None when the body leaves it out
create_occurrence(p, tok, prioridade) ==
    /\ AuditRoom
    /\ Free(p)
    /\ LET g == get_current_user(tok)
           r == [IdleReq EXCEPT !.op = "create_occurrence", !.tok = tok,
                                !.arg = PrioridadeOf(prioridade)]
       IN  req' = [req EXCEPT ![p] =
                IF ~g.ok THEN [r EXCEPT !.pc = "done", !.status = 401]
                ELSE [r EXCEPT !.pc = "co_insert", !.user = g.user]]
    /\ UNCHANGED <<store, tokens, now, resetPc>>

\* create_occurrence: db.occurrences.insert_one(occurrence.dict())
create_occurrence_insert(p) ==
    /\ req[p].pc = "co_insert"
    /\ occurrences' = Append(occurrences,
            Occurrence(Len(occurrences) + 1, req[p].arg, req[p].user.id, now))
    /\ req' = [req EXCEPT ![p].pc = "audit", ![p].rid = Len(occurrences) + 1]
    /\ UNCHANGED <<users, uuidCount, rounds, shifts, locations, audit_logs,
                   tokens, now, resetPc>>

\* PUT /occurrences/{occurrence_id}/resolve arrives; notes is the body's
\* observacoes_resolucao, a required string
resolve_occurrence(p, tok, occurrence_id, notes) ==
    /\ AuditRoom
    /\ Free(p)
    /\ LET g == get_current_user(tok)
           r == [IdleReq EXCEPT !.op = "resolve_occurrence", !.tok = tok,
                                !.rid = occurrence_id, !.arg = Some(notes)]
       IN  req' = [req EXCEPT ![p] =
                IF ~g.ok THEN [r EXCEPT !.pc = "done", !.status = 401]
                ELSE [r EXCEPT !.pc = "ro_find", !.user = g.user]]
    /\ UNCHANGED <<store, tokens, now, resetPc>>

\* resolve_occurrence: find the occurrence (404)
resolve_occurrence_find(p) ==
    /\ req[p].pc = "ro_find"
    /\ IF find_one(occurrences, LAMBDA o : o.id = req[p].rid) = 0
       THEN Raise(p, 404)
       ELSE req' = [req EXCEPT ![p].pc = "ro_update"]
    /\ UNCHANGED <<store, tokens, now, resetPc>>

\* mutant: an occurrence that is already resolved keeps its resolution
resolve_occurrence_update_Once(p) ==
    /\ req[p].pc = "ro_update"
    /\ occurrences' = update_one(occurrences,
            LAMBDA o : o.id = req[p].rid /\ ~o.resolvida,
            LAMBDA o : [o EXCEPT !.resolvida = TRUE, !.data_resolucao = Some(now),
                                 !.observacoes_resolucao = req[p].arg])
    /\ req' = [req EXCEPT ![p].pc = "audit"]
    /\ UNCHANGED <<users, uuidCount, rounds, shifts, locations, audit_logs,
                   tokens, now, resetPc>>

\* resolve_occurrence: update_one({"id": occurrence_id}, {"$set": {"resolvida":
\* True, "data_resolucao": now, "observacoes_resolucao": notes}})
resolve_occurrence_update(p) ==
    /\ req[p].pc = "ro_update"
    /\ occurrences' = update_one(occurrences, LAMBDA o : o.id = req[p].rid,
            LAMBDA o : [o EXCEPT !.resolvida = TRUE, !.data_resolucao = Some(now),
                                 !.observacoes_resolucao = req[p].arg])
    /\ req' = [req EXCEPT ![p].pc = "audit"]
    /\ UNCHANGED <<users, uuidCount, rounds, shifts, locations, audit_logs,
                   tokens, now, resetPc>>

\* POST /occurrences/{occurrence_id}/photos arrives
upload_occurrence_photo(p, tok, occurrence_id) ==
    /\ AuditRoom
    /\ Arrive(p, "upload_occurrence_photo", tok, UserRole, "up_find", occurrence_id)

\* mutant: the permission check is left out of the upload
upload_occurrence_photo_find_NoPermission(p) ==
    /\ req[p].pc = "up_find"
    /\ LET i == find_one(occurrences, LAMBDA o : o.id = req[p].rid)
       IN  IF i = 0
           THEN /\ Raise(p, 404)
                /\ UNCHANGED uuidCount
           ELSE /\ uuidCount' = uuid4(uuidCount)
                /\ req' = [req EXCEPT ![p].pc = "up_push",
                                      ![p].body = <<req[p].rid, uuid4(uuidCount)>>]
    /\ UNCHANGED <<users, rounds, shifts, occurrences, locations, audit_logs,
                   tokens, now, resetPc>>

\* upload_occurrence_photo: find the occurrence (404), check the permission
\* (403), save the file under the name {occurrence_id}_{uuid4()}
upload_occurrence_photo_find(p) ==
    /\ req[p].pc = "up_find"
    /\ LET i == find_one(occurrences, LAMBDA o : o.id = req[p].rid)
       IN  IF i = 0
           THEN /\ Raise(p, 404)
                /\ UNCHANGED uuidCount
           ELSE IF occurrences[i].usuario_id # req[p].user.id
                   /\ req[p].user.role \notin {SUPERVISOR, ADMINISTRADOR}
                THEN /\ Raise(p, 403)
                     /\ UNCHANGED uuidCount
                ELSE /\ uuidCount' = uuid4(uuidCount)
                     /\ req' = [req EXCEPT ![p].pc = "up_push",
                                           ![p].body = <<req[p].rid, uuid4(uuidCount)>>]
    /\ UNCHANGED <<users, rounds, shifts, occurrences, locations, audit_logs,
                   tokens, now, resetPc>>

\* upload_occurrence_photo: update_one({"id": occurrence_id}, {"$push": {"fotos": photo_url}})
upload_occurrence_photo_push(p) ==
    /\ req[p].pc = "up_push"
    /\ occurrences' = update_one(occurrences, LAMBDA o : o.id = req[p].rid,
            LAMBDA o : [o EXCEPT !.fotos = Append(o.fotos, req[p].body)])
    /\ req' = [req EXCEPT ![p].pc = "audit"]
    /\ UNCHANGED <<users, uuidCount, rounds, shifts, locations, audit_logs,
                   tokens, now, resetPc>>

\* --------------------------------------------------------------- listings

\* GET /occurrences arrives
get_occurrences(p, tok) == Arrive(p, "get_occurrences", tok, UserRole, "go_find", 0)

\* mutant: the vigilante filter is left out of the query
get_occurrences_find_NoFilter(p) ==
    /\ req[p].pc = "go_find"
    /\ Return(p, to_list(sort_desc(occurrences, "created_at"), ListLength))
    /\ UNCHANGED <<store, tokens, now, resetPc>>

\* get_occurrences: find(query).sort("created_at", -1).to_list(1000), where
\* query is {"usuario_id": current_user.id} for a vigilante and {} otherwise
get_occurrences_find(p) ==
    /\ req[p].pc = "go_find"
    /\ Return(p, to_list(sort_desc(
            find(occurrences, LAMBDA o : req[p].user.role = VIGILANTE
                                          => o.usuario_id = req[p].user.id),
            "created_at"), ListLength))
    /\ UNCHANGED <<store, tokens, now, resetPc>>

\* GET /rounds arrives
get_rounds(p, tok) == Arrive(p, "get_rounds", tok, UserRole, "gr_find", 0)

\* get_rounds: find(query).sort("created_at", -1).to_list(1000)
get_rounds_find(p) ==
    /\ req[p].pc = "gr_find"
    /\ Return(p, to_list(sort_desc(
            find(rounds, LAMBDA r : req[p].user.role = VIGILANTE
                                     => r.vigilante_id = req[p].user.id),
            "created_at"), ListLength))
    /\ UNCHANGED <<store, tokens, now, resetPc>>

\* GET /shifts arrives
get_shifts(p, tok) == Arrive(p, "get_shifts", tok, UserRole, "gs_find", 0)

\* get_shifts: find(query).sort("created_at", -1).to_list(1000)
get_shifts_find(p) ==
    /\ req[p].pc = "gs_find"
    /\ Return(p, to_list(sort_desc(
            find(shifts, LAMBDA s : req[p].user.role = VIGILANTE
                                     => s.vigilante_id = req[p].user.id),
            "created_at"), ListLength))
    /\ UNCHANGED <<store, tokens, now, resetPc>>

\* ------------------------------------------------------- change password

\* PUT /auth/change-password arrives: the gate, then the comparison of the
\* new password with its confirmation (400), which needs no store access
change_password(p, tok, senha_atual, nova_senha, confirmar_senha) ==
    /\ AuditRoom
    /\ Free(p)
    /\ LET g == get_current_user(tok)
           r == [IdleReq EXCEPT !.op = "change_password", !.tok = tok,
                                !.senha = senha_atual,
                                !.arg = <<nova_senha, confirmar_senha>>]
       IN  req' = [req EXCEPT ![p] =
                IF ~g.ok THEN [r EXCEPT !.pc = "done", !.status = 401]
                ELSE IF nova_senha # confirmar_senha
                     THEN [r EXCEPT !.pc = "done", !.status = 400, !.user = g.user]
                     ELSE [r EXCEPT !.pc = "cp_find", !.user = g.user]]
    /\ UNCHANGED <<store, tokens, now, resetPc>>

\* mutant: the current password is not verified
change_password_find_NoVerify(p) ==
    /\ req[p].pc = "cp_find"
    /\ LET i == find_one(users, LAMBDA u : u.id = req[p].user.id)
       IN  IF i = 0
           THEN Raise(p, 400)
           ELSE req' = [req EXCEPT ![p].pc = "cp_update"]
    /\ UNCHANGED <<store, tokens, now, resetPc>>

\* mutant: a current password that does not verify is answered 401
change_password_find_Unauthorized(p) ==
    /\ req[p].pc = "cp_find"
    /\ LET i == find_one(users, LAMBDA u : u.id = req[p].user.id)
       IN  IF i = 0 \/ ~verify_password(req[p].senha, users[i].senha)
           THEN Raise(p, 401)
           ELSE req' = [req EXCEPT ![p].pc = "cp_update"]
    /\ UNCHANGED <<store, tokens, now, resetPc>>

\* change_password: find the user, verify the current password (400)
change_password_find(p) ==
    /\ req[p].pc = "cp_find"
    /\ LET i == find_one(users, LAMBDA u : u.id = req[p].user.id)
       IN  IF i = 0 \/ ~verify_password(req[p].senha, users[i].senha)
           THEN Raise(p, 400)
           ELSE req' = [req EXCEPT ![p].pc = "cp_update"]
    /\ UNCHANGED <<store, tokens, now, resetPc>>

\* change_password: update_one({"id": current_user.id}, {"$set": {"senha": hash}})
change_password_update(p) ==
    /\ req[p].pc = "cp_update"
    /\ users' = update_one(users, LAMBDA u : u.id = req[p].user.id,
                           LAMBDA u : [u EXCEPT !.senha = get_password_hash(req[p].arg[1])])
    /\ req' = [req EXCEPT ![p].pc = "audit"]
    /\ UNCHANGED <<uuidCount, rounds, shifts, occurrences, locations, audit_logs,
                   tokens, now, resetPc>>

\* ------------------------------------------------------ users, register

\* POST /auth/register arrives (administrador only)
register(p, tok, email, senha, role) ==
    /\ AuditRoom
    /\ Free(p)
    /\ LET g == get_current_user(tok)
           r == [IdleReq EXCEPT !.op = "register", !.tok = tok, !.email = email,
                                !.senha = senha, !.role = role]
       IN  req' = [req EXCEPT ![p] =
                IF ~g.ok THEN [r EXCEPT !.pc = "done", !.status = 401]
                ELSE IF ~require_role({ADMINISTRADOR}, g.user)
                     THEN [r EXCEPT !.pc = "done", !.status = 403, !.user = g.user]
                     ELSE [r EXCEPT !.pc = "rg_find", !.user = g.user]]
    /\ UNCHANGED <<store, tokens, now, resetPc>>

\* mutant: the duplicate is refused only after the user has been inserted
register_find_InsertFirst(p) ==
    /\ req[p].pc = "rg_find"
    /\ users' = Append(users, NewUser(uuid4(uuidCount), req[p].email, req[p].role,
                                      req[p].senha))
    /\ uuidCount' = uuidCount + 1
    /\ IF find_one(users, LAMBDA u : u.email = req[p].email) # 0
       THEN Raise(p, 400)
       ELSE req' = [req EXCEPT ![p].pc = "audit"]
    /\ UNCHANGED <<rounds, shifts, occurrences, locations, audit_logs,
                   tokens, now, resetPc>>

\* register: existing_user = find_one({"email": ...}); 400 when there is one
register_find(p) ==
    /\ req[p].pc = "rg_find"
    /\ IF find_one(users, LAMBDA u : u.email = req[p].email) # 0
       THEN Raise(p, 400)
       ELSE req' = [req EXCEPT ![p].pc = "rg_insert"]
    /\ UNCHANGED <<store, tokens, now, resetPc>>

\* mutant: the password is stored as given, not hashed
register_insert_Plaintext(p) ==
    /\ req[p].pc = "rg_insert"
    /\ users' = Append(users,
            [NewUser(uuid4(uuidCount), req[p].email, req[p].role, req[p].senha)
                EXCEPT !.senha = req[p].senha])
    /\ uuidCount' = uuidCount + 1
    /\ req' = [req EXCEPT ![p].pc = "audit"]
    /\ UNCHANGED <<rounds, shifts, occurrences, locations, audit_logs,
                   tokens, now, resetPc>>

\* register: db.users.insert_one(user_dict), the password stored hashed
register_insert(p) ==
    /\ req[p].pc = "rg_insert"
    /\ users' = Append(users, NewUser(uuid4(uuidCount), req[p].email, req[p].role,
                                      req[p].senha))
    /\ uuidCount' = uuidCount + 1
    /\ req' = [req EXCEPT ![p].pc = "audit"]
    /\ UNCHANGED <<rounds, shifts, occurrences, locations, audit_logs,
                   tokens, now, resetPc>>

\* GET /users arrives (supervisor, administrador)
get_users(p, tok) == Arrive(p, "get_users", tok, {SUPERVISOR, ADMINISTRADOR}, "gu_find", 0)

\* get_users: db.users.find().to_list(1000)
get_users_find(p) ==
    /\ req[p].pc = "gu_find"
    /\ Return(p, to_list([k \in 1..Len(users) |-> UserOf(users[k])], 1000))
    /\ UNCHANGED <<store, tokens, now, resetPc>>

\* GET /shifts/active arrives (supervisor, administrador)
get_active_shifts(p, tok) ==
    Arrive(p, "get_active_shifts", tok, {SUPERVISOR, ADMINISTRADOR}, "gas_find", 0)

\* get_active_shifts: find({"status": ATIVO}).sort("inicio", -1).to_list(100)
get_active_shifts_find(p) ==
    /\ req[p].pc = "gas_find"
    /\ Return(p, to_list(sort_desc(find(shifts, LAMBDA s : s.status = ATIVO), "inicio"), 100))
    /\ UNCHANGED <<store, tokens, now, resetPc>>

\* GET /audit-logs arrives (administrador only)
get_audit_logs(p, tok) ==
    Arrive(p, "get_audit_logs", tok, {ADMINISTRADOR}, "gal_find", 0)

\* get_audit_logs: find().sort("timestamp", -1).limit(1000).to_list(1000)
get_audit_logs_find(p) ==
    /\ req[p].pc = "gal_find"
    /\ Return(p, to_list(to_list(sort_desc(audit_logs, "timestamp"), 1000), 1000))
    /\ UNCHANGED <<store, tokens, now, resetPc>>

\* ------------------------------------------------------------- locations

\* POST /locations arrives (supervisor, administrador)
create_location(p, tok, nome) ==
    /\ AuditRoom
    /\ Free(p)
    /\ LET g == get_current_user(tok)
           r == [IdleReq EXCEPT !.op = "create_location", !.tok = tok, !.arg = nome]
       IN  req' = [req EXCEPT ![p] =
                IF ~g.ok THEN [r EXCEPT !.pc = "done", !.status = 401]
                ELSE IF ~require_role({SUPERVISOR, ADMINISTRADOR}, g.user)
                     THEN [r EXCEPT !.pc = "done", !.status = 403, !.user = g.user]
                     ELSE [r EXCEPT !.pc = "cl_insert", !.user = g.user]]
    /\ UNCHANGED <<store, tokens, now, resetPc>>

\* create_location: db.locations.insert_one(location.dict())
create_location_insert(p) ==
    /\ req[p].pc = "cl_insert"
    /\ locations' = Append(locations, [nome |-> req[p].arg, ativo |-> TRUE])
    /\ req' = [req EXCEPT ![p].pc = "audit"]
    /\ UNCHANGED <<users, uuidCount, rounds, shifts, occurrences, audit_logs,
                   tokens, now, resetPc>>

\* ------------------------------------------------- reset_admin.py, operator

\* reset_admin_password: db.users.delete_one({"email": "admin@sistema.com"})
reset_admin_delete ==
    /\ resetPc = "idle"
    /\ users' = delete_one(users, LAMBDA u : u.email = "admin@sistema.com")
    /\ resetPc' = "insert"
    /\ UNCHANGED <<uuidCount, rounds, shifts, occurrences, locations, audit_logs,
                   tokens, now, req>>

\* reset_admin_password: db.users.insert_one(admin_user), id "admin-001"
reset_admin_insert ==
    /\ resetPc = "insert"
    /\ users' = Append(users, NewUser(ADMIN_RESET_ID, "admin@sistema.com",
                                      ADMINISTRADOR, "sales761"))
    /\ resetPc' = "idle"
    /\ UNCHANGED <<uuidCount, rounds, shifts, occurrences, locations, audit_logs,
                   tokens, now, req>>

\* A user document's ativo flag is cleared in the store.  No handler writes the
\* flag; login reads it (user.get("ativo", True)), so the documents it guards
\* against are written by whoever administers the database.
DeactivateUser(i) ==
    /\ i \in 1..Len(users)
    /\ users[i].ativo
    /\ Cardinality({k \in 1..Len(users) : ~users[k].ativo}) < MaxInactive
    /\ users' = [users EXCEPT ![i].ativo = FALSE]
    /\ UNCHANGED <<uuidCount, rounds, shifts, occurrences, locations, audit_logs,
                   tokens, now, resetPc, req>>

\* ------------------------------------------------------------------ clock

Tick ==
    /\ now < MaxTicks * TickMinutes
    /\ now' = now + TickMinutes
    /\ UNCHANGED <<store, tokens, resetPc, req>>

\* ---------------------------------------------------------- specifications

Seeded == create_initial_data_users([users |-> <<>>, count |-> 0])

\* the store after the first startup on an empty database; no request yet
Init ==
    /\ users = Seeded.users
    /\ uuidCount = Seeded.count
    /\ rounds = <<>>
    /\ shifts = <<>>
    /\ occurrences = <<>>
    /\ locations = create_initial_data_locations(<<>>)
    /\ audit_logs = <<>>
    /\ tokens = {}
    /\ now = 0
    /\ resetPc = "idle"
    /\ req = [p \in Procs |-> IdleReq]

\* (email, password) pairs a client tries: the seeded accounts' own, a wrong
\* password, an unknown email
\* The startup event: create_initial_data runs to its end before the process
\* serves a request.
create_initial_data ==
    /\ \A p \in Procs : Free(p)
    /\ LET s == create_initial_data_users([users |-> users, count |-> uuidCount])
       IN  /\ users' = s.users
           /\ uuidCount' = s.count
    /\ locations' = create_initial_data_locations(locations)
    /\ UNCHANGED <<rounds, shifts, occurrences, audit_logs, tokens, now, resetPc, req>>

\* the store of a new deployment, before the first startup event
EmptyInit ==
    /\ users = <<>>
    /\ uuidCount = 0
    /\ rounds = <<>>
    /\ shifts = <<>>
    /\ occurrences = <<>>
    /\ locations = <<>>
    /\ audit_logs = <<>>
    /\ tokens = {}
    /\ now = 0
    /\ resetPc = "idle"
    /\ req = [p \in Procs |-> IdleReq]

SeedCredentials ==
    {<<"admin@sistema.com", "sales761">>, <<"supervisor@sistema.com", "supervisor123">>,
     <<"vigilante@sistema.com", "vigilante123">>}
BadCredentials ==
    {<<"vigilante@sistema.com", "wrongpassword">>, <<"invalid@test.com", "wrongpassword">>}

\* Rounds, with requests handled one at a time: the only worker slot takes a
\* request when it has answered the one before.
RoundsNext ==
    \/ \E c \in SeedCredentials \cup BadCredentials : login(1, c[1], c[2])
    \/ login_update(1)
    \/ login_audit(1)
    \/ \E t \in Presentable : start_round(1, t)
    \/ start_round_check(1)
    \/ start_round_insert(1)
    \/ \E t \in Presentable, id \in 1..(Len(rounds) + 1) : finish_round(1, t, id)
    \/ finish_round_find(1)
    \/ finish_round_update(1)
    \/ log_audit(1)
    \/ Tick

RoundsSpec == Init /\ [][RoundsNext]_vars

\* Rounds and shifts with NProcs requests in flight: any slot may take its
\* next step, so store reads and writes of different requests interleave.
ConcNext ==
    \E p \in Procs :
        \/ \E c \in SeedCredentials : login(p, c[1], c[2])
        \/ login_update(p)
        \/ login_audit(p)
        \/ \E t \in tokens : start_round(p, t)
        \/ start_round_check(p)
        \/ start_round_insert(p)
        \/ \E t \in tokens : start_shift(p, t)
        \/ start_shift_check(p)
        \/ start_shift_insert(p)
        \/ \E t \in tokens, id \in 1..Len(shifts) : finish_shift(p, t, id)
        \/ finish_shift_find(p)
        \/ finish_shift_update(p)
        \/ log_audit(p)

ConcSpec == Init /\ [][ConcNext]_vars

\* Login, requests handled one at a time, while accounts are deactivated and
\* reset_admin.py is run.
LoginNext ==
    \/ \E c \in SeedCredentials \cup BadCredentials : login(1, c[1], c[2])
    \/ login_update(1)
    \/ login_audit(1)
    \/ reset_admin_delete
    \/ reset_admin_insert
    \/ \E i \in 1..Len(users) : DeactivateUser(i)
    \/ Tick

LoginSpec == Init /\ [][LoginNext]_vars

\* The authorization gate in front of a reading and a writing operation,
\* requests handled one at a time, while the clock runs and reset_admin.py
\* is run.
GateNext ==
    \/ \E c \in SeedCredentials : login(1, c[1], c[2])
    \/ login_update(1)
    \/ login_audit(1)
    \/ \E t \in Presentable : create_location(1, t, "Garagem")
    \/ create_location_insert(1)
    \/ \E t \in Presentable : get_users(1, t)
    \/ get_users_find(1)
    \/ log_audit(1)
    \/ reset_admin_delete
    \/ reset_admin_insert
    \/ Tick

GateSpec == Init /\ [][GateNext]_vars

\* The role-gated operations, requests handled one at a time.
RegisterInputs ==
    {<<"novo@sistema.com", "novo123", VIGILANTE>>,
     <<"vigilante@sistema.com", "novo123", VIGILANTE>>}

RolesNext ==
    \/ \E c \in SeedCredentials \cup {<<"novo@sistema.com", "novo123">>} :
          login(1, c[1], c[2])
    \/ login_update(1)
    \/ login_audit(1)
    \/ \E t \in tokens, r \in RegisterInputs : register(1, t, r[1], r[2], r[3])
    \/ register_find(1)
    \/ register_insert(1)
    \/ \E t \in tokens : create_location(1, t, "Garagem")
    \/ create_location_insert(1)
    \/ \E t \in tokens : get_users(1, t)
    \/ get_users_find(1)
    \/ \E t \in tokens : get_active_shifts(1, t)
    \/ get_active_shifts_find(1)
    \/ \E t \in tokens : get_audit_logs(1, t)
    \/ get_audit_logs_find(1)
    \/ log_audit(1)

RolesSpec == Init /\ [][RolesNext]_vars

\* The listings, requests handled one at a time.  The process starts either
\* on the freshly seeded store or on a store earlier runs have filled: the
\* vigilante logged in 400 minutes ago and reported ListLength + 1
\* occurrences, three a minute; the supervisor has just logged in and
\* reported one.  Tokens outlive a restart (SECRET_KEY is configuration).
FilledCount == ListLength + 1

FilledOccurrences ==
    [k \in 1..(FilledCount + 1) |->
        IF k <= FilledCount
        THEN Occurrence(k, MEDIA, Seeded.users[3].id, 0 - ((FilledCount - k) \div 3))
        ELSE Occurrence(k, MEDIA, Seeded.users[2].id, 0)]

FilledAudit ==
    [k \in 1..(FilledCount + 3) |->
        IF k = 1
        THEN [usuario_id |-> Seeded.users[3].id, acao |-> "LOGIN", recurso |-> "auth",
              timestamp |-> 0 - 400]
        ELSE IF k <= FilledCount + 1
        THEN [usuario_id |-> Seeded.users[3].id, acao |-> "CREATE_OCCURRENCE",
              recurso |-> "occurrences", timestamp |-> FilledOccurrences[k - 1].created_at]
        ELSE IF k = FilledCount + 2
        THEN [usuario_id |-> Seeded.users[2].id, acao |-> "LOGIN", recurso |-> "auth",
              timestamp |-> 0]
        ELSE [usuario_id |-> Seeded.users[2].id, acao |-> "CREATE_OCCURRENCE",
              recurso |-> "occurrences", timestamp |-> 0]]

FilledInit ==
    /\ users = [Seeded.users EXCEPT ![2].ultimo_login = Some(0),
                                    ![3].ultimo_login = Some(0 - 400)]
    /\ uuidCount = Seeded.count
    /\ rounds = <<>>
    /\ shifts = <<>>
    /\ occurrences = FilledOccurrences
    /\ locations = create_initial_data_locations(<<>>)
    /\ audit_logs = FilledAudit
    /\ tokens = {[kind |-> "jwt", sig |-> "ok", sub |-> Some(Seeded.users[3].id),
                  exp |-> ACCESS_TOKEN_EXPIRE_MINUTES - 400],
                 [kind |-> "jwt", sig |-> "ok", sub |-> Some(Seeded.users[2].id),
                  exp |-> ACCESS_TOKEN_EXPIRE_MINUTES]}
    /\ now = 0
    /\ resetPc = "idle"
    /\ req = [p \in Procs |-> IdleReq]

ListNext ==
    \/ \E c \in {<<"supervisor@sistema.com", "supervisor123">>,
                 <<"vigilante@sistema.com", "vigilante123">>} : login(1, c[1], c[2])
    \/ login_update(1)
    \/ login_audit(1)
    \/ \E t \in tokens : create_occurrence(1, t, None)
    \/ create_occurrence_insert(1)
    \/ \E t \in tokens : start_round(1, t)
    \/ start_round_check(1)
    \/ start_round_insert(1)
    \/ \E t \in tokens : start_shift(1, t)
    \/ start_shift_check(1)
    \/ start_shift_insert(1)
    \/ \E t \in tokens : get_occurrences(1, t)
    \/ get_occurrences_find(1)
    \/ \E t \in tokens : get_rounds(1, t)
    \/ get_rounds_find(1)
    \/ \E t \in tokens : get_shifts(1, t)
    \/ get_shifts_find(1)
    \/ log_audit(1)
    \/ Tick

ListSpec == (Init \/ FilledInit) /\ [][ListNext]_vars

\* Occurrences: report, resolve and photo upload, requests handled one at a
\* time, by the supervisor and the vigilante.
ResolveNotes == {"n1", "n2"}

OccNext ==
    \/ \E c \in {<<"supervisor@sistema.com", "supervisor123">>,
                 <<"vigilante@sistema.com", "vigilante123">>} : login(1, c[1], c[2])
    \/ login_update(1)
    \/ login_audit(1)
    \/ \E t \in tokens : create_occurrence(1, t, None)
    \/ create_occurrence_insert(1)
    \/ \E t \in tokens, id \in 1..(Len(occurrences) + 1), n \in ResolveNotes :
            resolve_occurrence(1, t, id, n)
    \/ resolve_occurrence_find(1)
    \/ resolve_occurrence_update(1)
    \/ \E t \in tokens, id \in 1..(Len(occurrences) + 1) :
            upload_occurrence_photo(1, t, id)
    \/ upload_occurrence_photo_find(1)
    \/ upload_occurrence_photo_push(1)
    \/ log_audit(1)
    \/ Tick

OccSpec == Init /\ [][OccNext]_vars

\* Registration, requests handled one at a time: the administrador registers
\* users, who then log in.
NewAccounts ==
    {<<"novo@sistema.com", "novo123", VIGILANTE>>,
     <<"novo@sistema.com", "novo123", SUPERVISOR>>,
     <<"vigilante@sistema.com", "outra123", SUPERVISOR>>}

RegisterNext ==
    \/ \E c \in {<<"admin@sistema.com", "sales761">>, <<"novo@sistema.com", "novo123">>,
                 <<"vigilante@sistema.com", "outra123">>} : login(1, c[1], c[2])
    \/ login_update(1)
    \/ login_audit(1)
    \/ \E t \in tokens, r \in NewAccounts : register(1, t, r[1], r[2], r[3])
    \/ register_find(1)
    \/ register_insert(1)
    \/ log_audit(1)
    \/ Tick

RegisterSpec == Init /\ [][RegisterNext]_vars

\* Registration with overlapping requests, and restarts of the server: the
\* administrador's clients send register requests whose store reads and
\* writes interleave.
EmailNext ==
    \/ create_initial_data
    \/ \E p \in Procs :
          \/ login(p, "admin@sistema.com", "sales761")
          \/ login_update(p)
          \/ login_audit(p)
          \/ \E t \in tokens, r \in NewAccounts : register(p, t, r[1], r[2], r[3])
          \/ register_find(p)
          \/ register_insert(p)
          \/ log_audit(p)

EmailSpec == EmptyInit /\ [][EmailNext]_vars

\* Password changes of the vigilante, requests handled one at a time.
PasswordLogins ==
    {<<"vigilante@sistema.com", "vigilante123">>, <<"vigilante@sistema.com", "q">>,
     <<"supervisor@sistema.com", "supervisor123">>, <<"ninguem@sistema.com", "q">>}

PasswordChanges ==
    {<<"vigilante123", "q", "q">>, <<"q", "vigilante123", "vigilante123">>,
     <<"q", "q", "q">>, <<"vigilante123", "q", "r">>, <<"r", "q", "r">>,
     <<"supervisor123", "q", "q">>}

PasswordNext ==
    \/ \E c \in PasswordLogins : login(1, c[1], c[2])
    \/ login_update(1)
    \/ login_audit(1)
    \/ \E t \in tokens, c \in PasswordChanges : change_password(1, t, c[1], c[2], c[3])
    \/ change_password_find(1)
    \/ change_password_update(1)
    \/ log_audit(1)

PasswordSpec == Init /\ [][PasswordNext]_vars

\* Every mutating operation, requests handled one at a time by the
\* administrador and the vigilante.
AuditNext ==
    \/ \E c \in {<<"admin@sistema.com", "sales761">>,
                 <<"vigilante@sistema.com", "vigilante123">>} : login(1, c[1], c[2])
    \/ login_update(1)
    \/ login_audit(1)
    \/ \E t \in tokens : register(1, t, "novo@sistema.com", "novo123", VIGILANTE)
    \/ register_find(1)
    \/ register_insert(1)
    \/ \E t \in tokens : change_password(1, t, "vigilante123", "q", "q")
    \/ change_password_find(1)
    \/ change_password_update(1)
    \/ \E t \in tokens : create_location(1, t, "Garagem")
    \/ create_location_insert(1)
    \/ \E t \in tokens : create_occurrence(1, t, None)
    \/ create_occurrence_insert(1)
    \/ \E t \in tokens : resolve_occurrence(1, t, 1, "n1")
    \/ resolve_occurrence_find(1)
    \/ resolve_occurrence_update(1)
    \/ \E t \in tokens : upload_occurrence_photo(1, t, 1)
    \/ upload_occurrence_photo_find(1)
    \/ upload_occurrence_photo_push(1)
    \/ \E t \in tokens : start_round(1, t)
    \/ start_round_check(1)
    \/ start_round_insert(1)
    \/ \E t \in tokens : finish_round(1, t, 1)
    \/ finish_round_find(1)
    \/ finish_round_update(1)
    \/ \E t \in tokens : start_shift(1, t)
    \/ start_shift_check(1)
    \/ start_shift_insert(1)
    \/ \E t \in tokens : finish_shift(1, t, 1)
    \/ finish_shift_find(1)
    \/ finish_shift_update(1)
    \/ log_audit(1)

AuditSpec == Init /\ [][AuditNext]_vars

\* Mutating requests whose audit write may fail, handled one at a time.
AuditFailNext ==
    \/ \E c \in {<<"admin@sistema.com", "sales761">>,
                 <<"vigilante@sistema.com", "vigilante123">>,
                 <<"vigilante@sistema.com", "q">>} : login(1, c[1], c[2])
    \/ login_update(1)
    \/ login_audit(1)
    \/ \E t \in tokens : register(1, t, "novo@sistema.com", "novo123", VIGILANTE)
    \/ register_find(1)
    \/ register_insert(1)
    \/ \E t \in tokens, c \in {<<"vigilante123", "q">>, <<"q", "vigilante123">>} :
            change_password(1, t, c[1], c[2], c[2])
    \/ change_password_find(1)
    \/ change_password_update(1)
    \/ \E t \in tokens : start_round(1, t)
    \/ start_round_check(1)
    \/ start_round_insert(1)
    \/ \E t \in tokens : start_shift(1, t)
    \/ start_shift_check(1)
    \/ start_shift_insert(1)
    \/ log_audit(1)
    \/ log_audit_fails(1)

AuditFailSpec == Init /\ [][AuditFailNext]_vars

\* Restarts of the server on a store that the administradores and the
\* reset script have changed, requests handled one at a time.
SeedAccounts ==
    {<<"chefe@sistema.com", "chefe123", ADMINISTRADOR>>,
     <<"admin@sistema.com", "outra123", VIGILANTE>>}

SeedNext ==
    \/ create_initial_data
    \/ \E c \in {<<"admin@sistema.com", "sales761">>, <<"chefe@sistema.com", "chefe123">>} :
            login(1, c[1], c[2])
    \/ login_update(1)
    \/ login_audit(1)
    \/ \E t \in tokens, r \in SeedAccounts : register(1, t, r[1], r[2], r[3])
    \/ register_find(1)
    \/ register_insert(1)
    \/ log_audit(1)
    \/ reset_admin_delete
    \/ reset_admin_insert

SeedSpec == EmptyInit /\ [][SeedNext]_vars

\* Users whose ativo flag is cleared while they hold a token, requests
\* handled one at a time.
InactiveNext ==
    \/ \E c \in {<<"supervisor@sistema.com", "supervisor123">>,
                 <<"vigilante@sistema.com", "vigilante123">>} : login(1, c[1], c[2])
    \/ login_update(1)
    \/ login_audit(1)
    \/ \E i \in 1..Len(users) : DeactivateUser(i)
    \/ \E t \in tokens : start_round(1, t)
    \/ start_round_check(1)
    \/ start_round_insert(1)
    \/ \E t \in tokens : create_occurrence(1, t, None)
    \/ create_occurrence_insert(1)
    \/ \E t \in tokens : get_users(1, t)
    \/ get_users_find(1)
    \/ log_audit(1)
    \/ Tick

InactiveSpec == Init /\ [][InactiveNext]_vars

\* Starting and finishing rounds and shifts, finishing them again, requests
\* handled one at a time while the clock runs.
FinishNext ==
    \/ login(1, "vigilante@sistema.com", "vigilante123")
    \/ login_update(1)
    \/ login_audit(1)
    \/ \E t \in tokens : start_round(1, t)
    \/ start_round_check(1)
    \/ start_round_insert(1)
    \/ \E t \in tokens, id \in 1..Len(rounds) : finish_round(1, t, id)
    \/ finish_round_find(1)
    \/ finish_round_update(1)
    \/ \E t \in tokens : start_shift(1, t)
    \/ start_shift_check(1)
    \/ start_shift_insert(1)
    \/ \E t \in tokens, id \in 1..Len(shifts) : finish_shift(1, t, id)
    \/ finish_shift_find(1)
    \/ finish_shift_update(1)
    \/ log_audit(1)
    \/ Tick

FinishSpec == Init /\ [][FinishNext]_vars

\* Every operation with the requests that make it fail: a token that is not
\* one, a role that is not allowed, an id that is not stored, a duplicate.
\* Requests are handled one at a time.
ErrorTokens == tokens \cup {[kind |-> "malformed", sig |-> "", sub |-> None, exp |-> 0]}

ErrorNext ==
    \/ \E c \in {<<"admin@sistema.com", "sales761">>,
                 <<"vigilante@sistema.com", "vigilante123">>,
                 <<"vigilante@sistema.com", "errada">>} : login(1, c[1], c[2])
    \/ login_update(1)
    \/ login_audit(1)
    \/ \E t \in ErrorTokens, e \in {"vigilante@sistema.com", "novo@sistema.com"} :
            register(1, t, e, "novo123", VIGILANTE)
    \/ register_find(1)
    \/ register_insert(1)
    \/ \E t \in ErrorTokens, c \in {<<"errada", "q", "q">>, <<"vigilante123", "q", "r">>,
                                  <<"vigilante123", "q", "q">>} :
            change_password(1, t, c[1], c[2], c[3])
    \/ change_password_find(1)
    \/ change_password_update(1)
    \/ \E t \in ErrorTokens : create_location(1, t, "Garagem")
    \/ create_location_insert(1)
    \/ \E t \in ErrorTokens : create_occurrence(1, t, None)
    \/ create_occurrence_insert(1)
    \/ \E t \in ErrorTokens, id \in 1..2 : resolve_occurrence(1, t, id, "n1")
    \/ resolve_occurrence_find(1)
    \/ resolve_occurrence_update(1)
    \/ \E t \in ErrorTokens, id \in 1..2 : upload_occurrence_photo(1, t, id)
    \/ upload_occurrence_photo_find(1)
    \/ upload_occurrence_photo_push(1)
    \/ \E t \in ErrorTokens : start_round(1, t)
    \/ start_round_check(1)
    \/ start_round_insert(1)
    \/ \E t \in ErrorTokens, id \in 1..2 : finish_round(1, t, id)
    \/ finish_round_find(1)
    \/ finish_round_update(1)
    \/ \E t \in ErrorTokens : start_shift(1, t)
    \/ start_shift_check(1)
    \/ start_shift_insert(1)
    \/ \E t \in ErrorTokens, id \in 1..2 : finish_shift(1, t, id)
    \/ finish_shift_find(1)
    \/ finish_shift_update(1)
    \/ \E t \in ErrorTokens : get_users(1, t)
    \/ get_users_find(1)
    \/ \E t \in ErrorTokens : get_audit_logs(1, t)
    \/ get_audit_logs_find(1)
    \/ log_audit(1)

ErrorSpec == Init /\ [][ErrorNext]_vars

\* ======================================================================
\* Claims
\* ======================================================================

\* slot p takes a step of its request
Steps(p) == req'[p] # req[p]
Ends(p, op) == req[p].op = op /\ ~Free(p) /\ req'[p].pc = "done"

RoundIdx == 1..Len(rounds)
ShiftIdx == 1..Len(shifts)
OwnsActiveRound(uid) ==
    \E i \in RoundIdx : rounds[i].vigilante_id = uid
                        /\ rounds[i].status \in {INICIADA, EM_ANDAMENTO}

\* C1: with requests handled one at a time, after any sequence of start-round
\* and finish-round requests every user owns at most one Round whose status
\* is iniciada or em_andamento.
C1_AtMostOneActiveRound ==
    \A i, j \in RoundIdx :
        ( /\ rounds[i].vigilante_id = rounds[j].vigilante_id
          /\ rounds[i].status \in {INICIADA, EM_ANDAMENTO}
          /\ rounds[j].status \in {INICIADA, EM_ANDAMENTO} ) => i = j

\* C1 witness: a user who finished a round has started the next one
C1_Witness ==
    \E i, j \in RoundIdx :
        /\ rounds[i].vigilante_id = rounds[j].vigilante_id
        /\ rounds[i].status = CONCLUIDA
        /\ rounds[j].status = INICIADA
        /\ req[1].op = "start_round" /\ req[1].pc = "done" /\ req[1].status = 200

\* C2: start_round by U answers 400 and creates no Round whenever U owns a
\* Round that is iniciada or em_andamento; otherwise it succeeds and creates
\* exactly one new Round owned by U, status iniciada, no end time.
C2_StartRound ==
    [][\A p \in Procs :
        /\ (req[p].pc = "sr_check" /\ Steps(p)) =>
              /\ rounds' = rounds
              /\ IF OwnsActiveRound(req[p].user.id)
                 THEN req'[p].pc = "done" /\ req'[p].status = 400
                 ELSE req'[p].pc = "sr_insert"
        /\ (req[p].pc = "sr_insert" /\ Steps(p)) =>
              /\ req'[p].pc = "audit"
              /\ Len(rounds') = Len(rounds) + 1
              /\ SubSeq(rounds', 1, Len(rounds)) = rounds
              /\ rounds'[Len(rounds')].vigilante_id = req[p].user.id
              /\ rounds'[Len(rounds')].status = INICIADA
              /\ rounds'[Len(rounds')].fim = None
              /\ \A i \in RoundIdx : rounds'[Len(rounds')].id # rounds[i].id
        /\ (req[p].op = "start_round" /\ req[p].pc = "audit" /\ Steps(p)) =>
              /\ rounds' = rounds
              /\ req'[p].pc = "done" /\ req'[p].status = 200
      ]_vars

\* C2 witness: a start_round answered 200 after the user's earlier round was
\* concluded (the new round is the user's only active one)
C2_Witness ==
    /\ req[1].op = "start_round" /\ req[1].pc = "done" /\ req[1].status = 200
    /\ \E i, j \in RoundIdx :
        /\ rounds[i].vigilante_id = req[1].user.id /\ rounds[i].status = CONCLUIDA
        /\ rounds[j].vigilante_id = req[1].user.id /\ rounds[j].status = INICIADA
        /\ rounds[j].fim = None /\ j = Len(rounds)

\* C3: the check and the insert of start_round are separate store steps: a
\* request that read "no active round" inserts its Round and answers 200
\* whatever the collection holds by then, so two overlapping requests of one
\* user both succeed and leave two Rounds iniciada.
C3_InsertIsUnconditional ==
    [][\A p \in Procs :
        /\ (req[p].pc = "sr_insert" /\ Steps(p)) =>
              /\ req'[p].pc = "audit"
              /\ Len(rounds') = Len(rounds) + 1
              /\ rounds'[Len(rounds')].vigilante_id = req[p].user.id
              /\ rounds'[Len(rounds')].status = INICIADA
        /\ (req[p].op = "start_round" /\ req[p].pc = "audit" /\ Steps(p)) =>
              req'[p].status = 200
      ]_vars

\* C3 witness: two requests of one user both answered 200 and two Rounds
\* iniciada owned by that user
C3_Witness ==
    /\ \A p \in {1, 2} : /\ req[p].op = "start_round" /\ req[p].pc = "done"
                         /\ req[p].status = 200
    /\ req[1].user.id = req[2].user.id
    /\ \E i, j \in RoundIdx :
        /\ i # j
        /\ rounds[i].vigilante_id = req[1].user.id /\ rounds[i].status = INICIADA
        /\ rounds[j].vigilante_id = req[1].user.id /\ rounds[j].status = INICIADA

\* C4: in every reachable state, also when start-shift and finish-shift
\* requests of one user interleave, every user owns at most one Shift with
\* status ativo.
C4_AtMostOneActiveShift ==
    \A i, j \in ShiftIdx :
        ( /\ shifts[i].vigilante_id = shifts[j].vigilante_id
          /\ shifts[i].status = ATIVO
          /\ shifts[j].status = ATIVO ) => i = j

\* C5: finish_round(id) answers 404 when no Round has the id, else 403 when
\* the caller is a vigilante who does not own the Round, else sets status
\* concluida and end time now; 404 and 403 leave the rounds unchanged; a
\* vigilante never changes the status of another user's Round.
C5_FinishRound ==
    [][/\ \A p \in Procs :
           /\ (req[p].pc = "fr_find" /\ Steps(p)) =>
                 /\ rounds' = rounds
                 /\ IF ~\E i \in RoundIdx : rounds[i].id = req[p].rid
                    THEN req'[p].pc = "done" /\ req'[p].status = 404
                    ELSE IF \E i \in RoundIdx :
                                /\ rounds[i].id = req[p].rid
                                /\ rounds[i].vigilante_id # req[p].user.id
                                /\ req[p].user.role = VIGILANTE
                         THEN req'[p].pc = "done" /\ req'[p].status = 403
                         ELSE req'[p].pc = "fr_update"
           /\ (req[p].pc = "fr_update" /\ Steps(p)) =>
                 /\ Len(rounds') = Len(rounds)
                 /\ \A i \in RoundIdx :
                       IF rounds[i].id = req[p].rid
                       THEN rounds'[i] = [rounds[i] EXCEPT !.status = CONCLUIDA,
                                                           !.fim = Some(now)]
                       ELSE rounds'[i] = rounds[i]
           /\ (req[p].op = "finish_round" /\ req[p].pc = "audit" /\ Steps(p)) =>
                 /\ rounds' = rounds
                 /\ req'[p].pc = "done" /\ req'[p].status = 200
       /\ \A i \in RoundIdx :
           (Len(rounds') >= i /\ rounds'[i].status # rounds[i].status) =>
               \E p \in Procs :
                   /\ Steps(p)
                   /\ req[p].rid = rounds[i].id
                   /\ \/ req[p].user.id = rounds[i].vigilante_id
                      \/ req[p].user.role # VIGILANTE
      ]_vars

\* C5 witness: a vigilante's finish_round on another user's Round answered
\* 403, the Round still iniciada with no end time
C5_Witness ==
    /\ req[1].op = "finish_round" /\ req[1].pc = "done" /\ req[1].status = 403
    /\ req[1].user.role = VIGILANTE
    /\ \E i \in RoundIdx :
        /\ rounds[i].id = req[1].rid
        /\ rounds[i].vigilante_id # req[1].user.id
        /\ rounds[i].status = INICIADA /\ rounds[i].fim = None

UserIdx == 1..Len(users)

\* slot p takes a new request in this step
Arrives(p) == Free(p) /\ Steps(p)

\* the store, read by a claim as the six collections
Collections == <<users, rounds, shifts, occurrences, locations, audit_logs>>

\* C6: login never returns a token and answers 401 when the email matches no
\* stored user, when the password does not verify against the stored hash,
\* or when the matched user's ativo flag is false; the user's last-login
\* timestamp and the audit log are then unchanged.
C6_LoginRejects ==
    /\ [][\A p \in Procs :
            (Arrives(p) /\ req'[p].op = "login") =>
                ( ( \/ ~\E i \in UserIdx : users[i].email = req'[p].email
                    \/ \E i \in UserIdx :
                          /\ users[i].email = req'[p].email
                          /\ \A j \in 1..(i - 1) : users[j].email # req'[p].email
                          /\ \/ users[i].senha # get_password_hash(req'[p].senha)
                             \/ ~users[i].ativo )
                  => /\ req'[p].pc = "done" /\ req'[p].status = 401
                     /\ req'[p].out = NoToken
                     /\ users' = users /\ audit_logs' = audit_logs
                     /\ tokens' = tokens )
       ]_vars
    /\ [](\A p \in Procs :
            (req[p].op = "login" /\ req[p].status = 401) =>
                (req[p].pc = "done" /\ req[p].out = NoToken))

\* C6 witness: a login with the right password of a deactivated account was
\* answered 401
C6_Witness ==
    /\ req[1].op = "login" /\ req[1].pc = "done" /\ req[1].status = 401
    /\ \E i \in UserIdx :
        /\ users[i].email = req[1].email
        /\ users[i].senha = get_password_hash(req[1].senha)
        /\ ~users[i].ativo
        /\ users[i].ultimo_login = None
    /\ audit_logs = <<>>

\* the gate would resolve token t to the stored user whose id is its subject
Resolves(t) ==
    /\ get_current_user(t).ok
    /\ t.sub # None
    /\ get_current_user(t).user.id = t.sub[1]
    /\ \E i \in UserIdx : users[i].id = t.sub[1]
                          /\ users[i].role = get_current_user(t).user.role

\* C7 as stated: every token login returned resolves, before its expiry, to
\* the user it was issued for.
C7_TokenResolvesUntilExpiry ==
    \A t \in tokens : now < t.exp => Resolves(t)

\* What login and the gate keep of C7 while reset_admin.py may delete the
\* administrator: login of a stored active user with its password returns a
\* token whose subject is that user's id and whose expiry is the issue time
\* plus 480 minutes; before expiry the gate resolves it to that user as long
\* as a user document with that id is still stored; login sets the
\* last-login timestamp of that document if it is still stored.
C7_LoginIssuesResolvingToken ==
    /\ [][\A p \in Procs :
            /\ (Arrives(p) /\ req'[p].op = "login") =>
                  ( (\E i \in UserIdx :
                        /\ users[i].email = req'[p].email
                        /\ \A j \in 1..(i - 1) : users[j].email # req'[p].email
                        /\ users[i].senha = get_password_hash(req'[p].senha)
                        /\ users[i].ativo
                        /\ req'[p].user.id = users[i].id)
                    <=> req'[p].pc = "lg_update" )
            /\ (req[p].pc = "lg_update" /\ Steps(p)) =>
                  /\ req'[p].pc = "audit"
                  /\ Len(users') = Len(users)
                  /\ \A i \in UserIdx :
                        IF users[i].id = req[p].user.id
                           /\ \A j \in 1..(i - 1) : users[j].id # req[p].user.id
                        THEN users'[i] = [users[i] EXCEPT !.ultimo_login = Some(now)]
                        ELSE users'[i] = users[i]
            /\ (req[p].op = "login" /\ req[p].pc = "audit" /\ Steps(p)) =>
                  /\ req'[p].pc = "done" /\ req'[p].status = 200
                  /\ req'[p].out.kind = "jwt" /\ req'[p].out.sig = "ok"
                  /\ req'[p].out.sub = Some(req[p].user.id)
                  /\ req'[p].out.exp = now + ACCESS_TOKEN_EXPIRE_MINUTES
                  /\ tokens' = tokens \cup {req'[p].out}
       ]_vars
    /\ [](\A t \in tokens :
            (now < t.exp /\ \E i \in UserIdx : users[i].id = t.sub[1]) => Resolves(t))
    /\ [](\A p \in Procs :
            (req[p].op \notin {"", "login"} /\ req[p].tok \in tokens
             /\ req[p].status # 401) => req[p].user.id = req[p].tok.sub[1])

\* the case of C7: a token issued at an earlier clock reading, not yet expired,
\* was presented and resolved to the user it was issued for, whose
\* last-login timestamp is set
C7_Witness ==
    /\ req[1].op = "get_users" /\ req[1].pc = "done" /\ req[1].status = 200
    /\ req[1].tok \in tokens
    /\ req[1].tok.exp - ACCESS_TOKEN_EXPIRE_MINUTES < now /\ now < req[1].tok.exp
    /\ req[1].user.id = req[1].tok.sub[1]
    /\ \E i \in UserIdx : users[i].id = req[1].user.id /\ users[i].ultimo_login # None

\* what makes get_current_user raise the credentials exception
BadToken(t) ==
    \/ t.kind # "jwt"
    \/ t.sig # "ok"
    \/ t.exp <= now
    \/ t.sub = None
    \/ ~\E i \in UserIdx : users[i].id = t.sub[1]

\* C8: the gate answers 401, and the protected operation writes nothing,
\* whenever the bearer token is malformed, badly signed, expired, without a
\* subject, or its subject matches no user document at the time of the
\* request.
C8_GateRejects ==
    /\ [][\A p \in Procs :
            (Arrives(p) /\ req'[p].op # "login" /\ BadToken(req'[p].tok)) =>
                /\ req'[p].pc = "done" /\ req'[p].status = 401
                /\ Collections' = Collections
       ]_vars
    /\ [](\A p \in Procs :
            (req[p].op # "login" /\ req[p].status = 401) =>
                (req[p].pc = "done" /\ req[p].user = NoUser))

\* C8 witness: a token login issued, well signed and not expired, was answered
\* 401 on a writing operation because its user document was removed
C8_Witness ==
    /\ req[1].op = "create_location" /\ req[1].pc = "done" /\ req[1].status = 401
    /\ req[1].tok \in tokens /\ now < req[1].tok.exp
    /\ ~\E i \in UserIdx : users[i].id = req[1].tok.sub[1]

AdminOnly == {"register", "get_audit_logs"}
SupervisorUp == {"get_users", "get_active_shifts", "create_location",
                 "get_occurrences_by_priority"}

Owed(coll, owner, r) ==
    {i \in 1..Len(coll) : r.user.role = VIGILANTE => coll[i][owner] = r.user.id}

\* body holds documents of coll owed to the caller, each once, newest first
ListedFrom(coll, owner, r) ==
    /\ \A k \in 1..Len(r.body) :
          \E i \in Owed(coll, owner, r) : coll[i] = r.body[k]
    /\ \A k, m \in 1..Len(r.body) : r.body[k].id = r.body[m].id => k = m
    /\ \A k \in 1..(Len(r.body) - 1) : r.body[k].created_at >= r.body[k + 1].created_at

\* the collection and the owner field a listing operation reads
ListingOps == {"get_occurrences", "get_rounds", "get_shifts"}
ListedColl(op) ==
    CASE op = "get_occurrences" -> occurrences
      [] op = "get_rounds" -> rounds
      [] op = "get_shifts" -> shifts
OwnerField(op) == IF op = "get_occurrences" THEN "usuario_id" ELSE "vigilante_id"

Answered(p) == req[p].op \in ListingOps /\ req[p].pc = "done" /\ req[p].status = 200

\* C10 as stated: a vigilante receives exactly its own records, a supervisor
\* or administrador every record of the collection, newest first.
C10_ListsEveryRecord ==
    \A p \in Procs : Answered(p) =>
        LET coll == ListedColl(req[p].op)
            owner == OwnerField(req[p].op)
        IN  /\ ListedFrom(coll, owner, req[p])
            /\ Len(req[p].body) = Cardinality(Owed(coll, owner, req[p]))

\* What the listings do return: the caller's own records (vigilante) or the
\* records of the whole collection (supervisor, administrador), newest
\* first, cut to the ListLength newest of them.
C10_ListsNewestThousand ==
    \A p \in Procs : Answered(p) =>
        LET coll == ListedColl(req[p].op)
            owner == OwnerField(req[p].op)
            owed == Owed(coll, owner, req[p])
        IN  /\ ListedFrom(coll, owner, req[p])
            /\ Len(req[p].body) =
                  IF Cardinality(owed) < ListLength THEN Cardinality(owed)
                  ELSE ListLength
            /\ \A i \in owed :
                  (\A k \in 1..Len(req[p].body) : req[p].body[k] # coll[i]) =>
                      \A k \in 1..Len(req[p].body) :
                          coll[i].created_at <= req[p].body[k].created_at

\* the case of C10: a vigilante's listing of occurrences holds its own record and
\* not the newer one another user reported
C10_Witness ==
        /\ Answered(1)
        /\ req[1].op = "get_occurrences"
        /\ req[1].user.role = VIGILANTE
        /\ Len(req[1].body) = 1
        /\ \E i \in 1..Len(occurrences) :
              /\ occurrences[i].usuario_id # req[1].user.id
              /\ occurrences[i].created_at > req[1].body[1].created_at

OccIdx == 1..Len(occurrences)

\* C11: resolve_occurrence on an existing occurrence succeeds (200) for any
\* authenticated caller whether or not the occurrence is already resolved; a
\* resolve overwrites the notes of an earlier one, so after resolves with
\* notes n1 then n2 the occurrence is resolved with notes n2; once resolvida
\* is true no operation sets it back to false; resolve on an unknown id
\* answers 404 and changes nothing.
C11_ResolveOccurrence ==
    [][/\ \A p \in Procs :
           /\ (Arrives(p) /\ req'[p].op = "resolve_occurrence") =>
                 /\ Collections' = Collections
                 /\ IF get_current_user(req'[p].tok).ok
                    THEN req'[p].pc = "ro_find"
                    ELSE req'[p].pc = "done" /\ req'[p].status = 401
           /\ (req[p].pc = "ro_find" /\ Steps(p)) =>
                 /\ Collections' = Collections
                 /\ IF \E i \in OccIdx : occurrences[i].id = req[p].rid
                    THEN req'[p].pc = "ro_update"
                    ELSE req'[p].pc = "done" /\ req'[p].status = 404
           /\ (req[p].pc = "ro_update" /\ Steps(p)) =>
                 /\ req'[p].pc = "audit"
                 /\ Len(occurrences') = Len(occurrences)
                 /\ \A i \in OccIdx :
                       IF occurrences[i].id = req[p].rid
                       THEN occurrences'[i] =
                                [occurrences[i] EXCEPT
                                    !.resolvida = TRUE,
                                    !.data_resolucao = Some(now),
                                    !.observacoes_resolucao = req[p].arg]
                       ELSE occurrences'[i] = occurrences[i]
           /\ (req[p].op = "resolve_occurrence" /\ req[p].pc = "audit" /\ Steps(p)) =>
                 /\ occurrences' = occurrences
                 /\ req'[p].pc = "done" /\ req'[p].status = 200
       /\ \A i \in OccIdx :
             occurrences[i].resolvida =>
                 /\ Len(occurrences') >= i
                 /\ occurrences'[i].id = occurrences[i].id
                 /\ occurrences'[i].resolvida
      ]_vars

\* C11 witness: the second resolve of one occurrence answered 200; the
\* occurrence carries the notes and the time of the second resolve
C11_Witness ==
    /\ req[1].op = "resolve_occurrence" /\ req[1].pc = "done" /\ req[1].status = 200
    /\ req[1].arg = Some("n2")
    /\ \E a, b \in 1..Len(audit_logs) :
          /\ a < b
          /\ audit_logs[a].acao = "RESOLVE_OCCURRENCE"
          /\ audit_logs[b].acao = "RESOLVE_OCCURRENCE"
          /\ audit_logs[a].timestamp < audit_logs[b].timestamp
          /\ \E i \in OccIdx :
                /\ occurrences[i].id = req[1].rid
                /\ occurrences[i].resolvida
                /\ occurrences[i].observacoes_resolucao = Some("n2")
                /\ occurrences[i].data_resolucao = Some(audit_logs[b].timestamp)

\* s is a prefix of t
IsPrefix(s, t) == Len(s) <= Len(t) /\ SubSeq(t, 1, Len(s)) = s

\* C12: a successful photo upload on occurrence O leaves O's previous photo
\* list as a prefix of the new list and extends it by exactly one reference;
\* no operation removes or reorders an entry of a photo list; the upload
\* answers 404 for an unknown occurrence and 403 when the caller is a
\* vigilante who is not O's reporter, the photo list unchanged in both cases.
C12_UploadPhoto ==
    [][/\ \A p \in Procs :
           /\ (req[p].pc = "up_find" /\ Steps(p)) =>
                 /\ occurrences' = occurrences
                 /\ IF ~\E i \in OccIdx : occurrences[i].id = req[p].rid
                    THEN req'[p].pc = "done" /\ req'[p].status = 404
                    ELSE IF \E i \in OccIdx :
                                /\ occurrences[i].id = req[p].rid
                                /\ occurrences[i].usuario_id # req[p].user.id
                                /\ req[p].user.role = VIGILANTE
                         THEN req'[p].pc = "done" /\ req'[p].status = 403
                         ELSE req'[p].pc = "up_push"
           /\ (req[p].pc = "up_push" /\ Steps(p)) =>
                 /\ req'[p].pc = "audit"
                 /\ Len(occurrences') = Len(occurrences)
                 /\ \A i \in OccIdx :
                       IF occurrences[i].id = req[p].rid
                       THEN /\ Len(occurrences'[i].fotos) = Len(occurrences[i].fotos) + 1
                            /\ IsPrefix(occurrences[i].fotos, occurrences'[i].fotos)
                            /\ occurrences'[i] =
                                  [occurrences[i] EXCEPT !.fotos = occurrences'[i].fotos]
                       ELSE occurrences'[i] = occurrences[i]
           /\ (req[p].op = "upload_occurrence_photo" /\ req[p].pc = "audit" /\ Steps(p)) =>
                 /\ occurrences' = occurrences
                 /\ req'[p].pc = "done" /\ req'[p].status = 200
       /\ \A i \in OccIdx :
             /\ Len(occurrences') >= i
             /\ IsPrefix(occurrences[i].fotos, occurrences'[i].fotos)
      ]_vars

\* C12 witness: the second upload on one occurrence answered 200 and the
\* occurrence holds two different photo references
C12_Witness ==
    /\ req[1].op = "upload_occurrence_photo" /\ req[1].pc = "done" /\ req[1].status = 200
    /\ \E i \in OccIdx :
          /\ occurrences[i].id = req[1].rid
          /\ Len(occurrences[i].fotos) = 2
          /\ occurrences[i].fotos[1] # occurrences[i].fotos[2]
          /\ occurrences[i].fotos[2] = req[1].body

\* C13: register by an administrador with an email that already belongs to
\* a stored user answers 400 and leaves the user collection and the audit
\* log unchanged; with an unused email it creates exactly one user with the
\* requested role, ativo true and the hash of the password (not the
\* plaintext) stored, after which login with that email and password
\* succeeds.
C13_Register ==
    /\ [][\A p \in Procs :
            /\ (req[p].pc = "rg_find" /\ Steps(p)) =>
                  /\ Collections' = Collections
                  /\ IF \E i \in UserIdx : users[i].email = req[p].email
                     THEN req'[p].pc = "done" /\ req'[p].status = 400
                     ELSE req'[p].pc = "rg_insert"
            /\ (req[p].pc = "rg_insert" /\ Steps(p)) =>
                  /\ req'[p].pc = "audit"
                  /\ Len(users') = Len(users) + 1
                  /\ SubSeq(users', 1, Len(users)) = users
                  /\ LET u == users'[Len(users')]
                     IN  /\ u.email = req[p].email
                         /\ u.role = req[p].role
                         /\ u.ativo
                         /\ u.senha # req[p].senha
                         /\ verify_password(req[p].senha, u.senha)
                         /\ \A i \in UserIdx : users[i].id # u.id
            /\ (req[p].op = "register" /\ req[p].pc = "audit" /\ Steps(p)) =>
                  /\ users' = users
                  /\ req'[p].pc = "done" /\ req'[p].status = 200
            /\ (Arrives(p) /\ req'[p].op = "login") =>
                  \A i \in UserIdx :
                      (/\ i > Len(Seeded.users)
                       /\ users[i].email = req'[p].email
                       /\ verify_password(req'[p].senha, users[i].senha)) =>
                          /\ req'[p].pc = "lg_update"
                          /\ req'[p].user.id = users[i].id
       ]_vars
    /\ [](\A p \in Procs :
            (req[p].op = "register" /\ req[p].pc = "done" /\ req[p].status = 400) =>
                \E i \in UserIdx : users[i].email = req[p].email)

\* C13 witness: the user the administrador registered as supervisor logged
\* in with the registered password and holds a token for the new id
C13_Witness ==
    /\ req[1].op = "login" /\ req[1].pc = "done" /\ req[1].status = 200
    /\ req[1].email = "novo@sistema.com"
    /\ Len(users) = 4
    /\ users[4].role = SUPERVISOR /\ users[4].email = "novo@sistema.com"
    /\ req[1].out.sub = Some(users[4].id)
    /\ \E a \in 1..Len(audit_logs) : audit_logs[a].acao = "CREATE_USER"

\* C14: user emails are unique in every reachable state: after any sequence
\* of register requests and startup seedings, including two register
\* requests for the same email whose store reads and writes interleave, no
\* two user records have the same email.
C14_UniqueEmails ==
    \A i, j \in UserIdx : users[i].email = users[j].email => i = j

\* the stored user a request's caller resolves to, 0 when there is none
CallerIdx(p) ==
    IF \E i \in UserIdx : users[i].id = req[p].user.id
    THEN CHOOSE i \in UserIdx :
            /\ users[i].id = req[p].user.id
            /\ \A j \in 1..(i - 1) : users[j].id # req[p].user.id
    ELSE 0

\* C15: change_password fails and leaves the stored hash unchanged when the
\* new password and its confirmation differ (checked first) or when the
\* given current password does not verify; otherwise it replaces the
\* caller's stored hash, so that a later login succeeds with the new password
\* and fails with the old one when they differ; changing from p to q and
\* then from q back to p succeeds both times and restores login with p.
C15_ChangePassword ==
    [][/\ \A p \in Procs :
           /\ (Arrives(p) /\ req'[p].op = "change_password"
               /\ get_current_user(req'[p].tok).ok) =>
                 /\ Collections' = Collections
                 /\ IF req'[p].arg[1] # req'[p].arg[2]
                    THEN req'[p].pc = "done" /\ req'[p].status = 400
                    ELSE req'[p].pc = "cp_find"
           /\ (req[p].pc = "cp_find" /\ Steps(p)) =>
                 /\ Collections' = Collections
                 /\ IF CallerIdx(p) # 0
                       /\ users[CallerIdx(p)].senha = get_password_hash(req[p].senha)
                    THEN req'[p].pc = "cp_update"
                    ELSE req'[p].pc = "done" /\ req'[p].status = 400
           /\ (req[p].pc = "cp_update" /\ Steps(p)) =>
                 /\ req'[p].pc = "audit"
                 /\ Len(users') = Len(users)
                 /\ \A i \in UserIdx :
                       IF i = CallerIdx(p)
                       THEN users'[i] = [users[i] EXCEPT
                                            !.senha = get_password_hash(req[p].arg[1])]
                       ELSE users'[i] = users[i]
           /\ (req[p].op = "change_password" /\ req[p].pc = "audit" /\ Steps(p)) =>
                 /\ users' = users
                 /\ req'[p].pc = "done" /\ req'[p].status = 200
           /\ (Arrives(p) /\ req'[p].op = "login") =>
                 \A i \in UserIdx :
                     (users[i].email = req'[p].email /\ users[i].ativo) =>
                         IF users[i].senha = get_password_hash(req'[p].senha)
                         THEN req'[p].pc = "lg_update"
                         ELSE req'[p].pc = "done" /\ req'[p].status = 401
       /\ \A i \in UserIdx :
             (Len(users') >= i /\ users'[i].senha # users[i].senha) =>
                 \E p \in Procs : req[p].pc = "cp_update" /\ Steps(p) /\ i = CallerIdx(p)
      ]_vars

\* C15 witness: a change from q back to the first password answered 200 (so
\* the earlier change to q had taken effect), and the stored hash is the
\* first password's again
C15_Witness ==
    /\ req[1].op = "change_password" /\ req[1].pc = "done" /\ req[1].status = 200
    /\ req[1].senha = "q" /\ req[1].arg = <<"vigilante123", "vigilante123">>
    /\ users[CallerIdx(1)].email = "vigilante@sistema.com"
    /\ users[CallerIdx(1)].senha = get_password_hash("vigilante123")
    /\ Cardinality({a \in 1..Len(audit_logs) :
                        audit_logs[a].acao = "CHANGE_PASSWORD"}) = 2

\* the credentials of a login request match no stored user's email and password
InvalidLogin(r) ==
    \A i \in UserIdx :
        users[i].email = r.email => users[i].senha # get_password_hash(r.senha)

\* C16 as stated: every operation that fails with InvalidCredentials answers
\* 401: login with an unknown email or a wrong password, and change_password
\* whose current password does not verify.
C16_InvalidCredentials401 ==
    [][\A p \in Procs :
          /\ (Arrives(p) /\ req'[p].op = "login" /\ InvalidLogin(req'[p])) =>
                (req'[p].pc = "done" /\ req'[p].status = 401)
          /\ (req[p].pc = "cp_find" /\ Steps(p) /\ CallerIdx(p) # 0
              /\ users[CallerIdx(p)].senha # get_password_hash(req[p].senha)) =>
                (req'[p].pc = "done" /\ req'[p].status = 401)
      ]_vars

\* C16, amended: login with an unknown email or a wrong password answers 401;
\* change_password whose current password does not verify answers 400.
C16_InvalidCredentialsStatus ==
    [][\A p \in Procs :
          /\ (Arrives(p) /\ req'[p].op = "login" /\ InvalidLogin(req'[p])) =>
                (req'[p].pc = "done" /\ req'[p].status = 401)
          /\ (req[p].pc = "cp_find" /\ Steps(p) /\ CallerIdx(p) # 0
              /\ users[CallerIdx(p)].senha # get_password_hash(req[p].senha)) =>
                (req'[p].pc = "done" /\ req'[p].status = 400)
      ]_vars

\* C16 witness: a change_password whose new password and confirmation agree
\* and whose current password does not verify was answered 400
C16_Witness ==
    /\ req[1].op = "change_password" /\ req[1].pc = "done" /\ req[1].status = 400
    /\ req[1].arg[1] = req[1].arg[2]
    /\ CallerIdx(1) # 0
    /\ users[CallerIdx(1)].senha # get_password_hash(req[1].senha)

\* the action tag C17 expects of each mutating operation
ExpectedAction(op) ==
    CASE op = "register" -> "CREATE_USER"
      [] op = "login" -> "LOGIN"
      [] op = "change_password" -> "CHANGE_PASSWORD"
      [] op = "create_occurrence" -> "CREATE_OCCURRENCE"
      [] op = "resolve_occurrence" -> "RESOLVE_OCCURRENCE"
      [] op = "upload_occurrence_photo" -> "UPLOAD_PHOTO"
      [] op = "start_round" -> "START_ROUND"
      [] op = "finish_round" -> "FINISH_ROUND"
      [] op = "start_shift" -> "START_SHIFT"
      [] op = "finish_shift" -> "FINISH_SHIFT"
      [] op = "create_location" -> "CREATE_LOCATION"

\* slot p's request ends with success in this step
Succeeds(p) == ~Free(p) /\ req'[p].pc = "done" /\ req'[p].status = 200

\* C17: each successfully completed mutating API request appends exactly one
\* audit record whose actor id is the acting user's id and whose action tag
\* names that operation; the audit log only grows, and no operation modifies
\* or deletes an existing audit record.
C17_OneAuditRecord ==
    [][/\ IsPrefix(audit_logs, audit_logs')
       /\ \A p \in Procs :
           /\ (Succeeds(p) /\ req[p].op \in MutatingOps) =>
                 /\ Len(audit_logs') = Len(audit_logs) + 1
                 /\ audit_logs'[Len(audit_logs')].usuario_id = req[p].user.id
                 /\ audit_logs'[Len(audit_logs')].acao = ExpectedAction(req[p].op)
                 /\ audit_logs'[Len(audit_logs')].timestamp = now
           /\ (Steps(p) /\ ~Succeeds(p)) => audit_logs' = audit_logs
       /\ audit_logs' # audit_logs =>
             \E p \in Procs : Succeeds(p) /\ req[p].op \in MutatingOps
      ]_vars

\* C17 witness: three requests of different operations succeeded and the
\* audit log holds their three records, in the order the requests ended
C17_Witness ==
    /\ req[1].op = "resolve_occurrence" /\ req[1].pc = "done" /\ req[1].status = 200
    /\ Len(audit_logs) = 3
    /\ audit_logs[1].acao = "LOGIN"
    /\ audit_logs[2].acao = "CREATE_OCCURRENCE"
    /\ audit_logs[3].acao = "RESOLVE_OCCURRENCE"
    /\ audit_logs[3].usuario_id = req[1].user.id

\* C18: a failure of the audit-log write never changes the outcome of the
\* triggering operation: when the audit insert fails after the primary store
\* write of a mutating request, the request still reports success.
C18_AuditFailureKeepsSuccess ==
    [][\A p \in Procs :
          (req[p].pc = "audit" /\ Steps(p)) =>
              (req'[p].pc = "done" /\ req'[p].status = 200)
      ]_vars

\* C19: user records are never hard-deleted: across every operation of the
\* repository (API requests, startup seeding and the admin-reset script) the
\* set of stored user ids only grows, so a user id referenced by an issued
\* token, a Round, a Shift, an Occurrence or an audit record always still
\* maps to a user record.
C19_UserIdsOnlyGrow ==
    [][{users[i].id : i \in UserIdx} \subseteq {users'[i].id : i \in 1..Len(users')}]_vars

\* the emails stored in a user collection
Emails(us) == {us[i].email : i \in 1..Len(us)}

\* C20: startup seeding is idempotent: from any reachable store state,
\* running create_initial_data twice in a row leaves the same users and
\* locations as running it once (the second run inserts nothing), and seeding
\* never inserts a user whose email is already stored.
C20_SeedingIdempotent ==
    [][create_initial_data =>
          /\ create_initial_data_users([users |-> users', count |-> uuidCount']).users = users'
          /\ create_initial_data_locations(locations') = locations'
          /\ IsPrefix(users, users')
          /\ \A i \in (Len(users) + 1)..Len(users') :
                /\ users'[i].email \notin Emails(users)
                /\ \A j \in (Len(users) + 1)..Len(users') :
                      users'[i].email = users'[j].email => i = j
      ]_vars

\* What seeding does keep of C20: a second run right after the first inserts
\* nothing, and the supervisor and the vigilante are inserted only when their
\* email is not stored.
C20_SecondRunInsertsNothing ==
    [][create_initial_data =>
          /\ create_initial_data_users([users |-> users', count |-> uuidCount']).users = users'
          /\ create_initial_data_locations(locations') = locations'
          /\ IsPrefix(users, users')
          /\ \A i \in (Len(users) + 1)..Len(users') :
                users'[i].role # ADMINISTRADOR => users'[i].email \notin Emails(users)
      ]_vars

\* the first step of each gated operation's handler body
FirstStep(op) ==
    CASE op = "start_round" -> "sr_check"
      [] op = "create_occurrence" -> "co_insert"
      [] op = "get_users" -> "gu_find"

\* C21: the ativo flag is checked only by login: a user whose flag was set to
\* false after a token was issued still passes the authorization gate with
\* that unexpired token and performs every operation the role allows (start
\* a round, create an occurrence, list the users as supervisor), while a new
\* login by that user answers 401.
C21_AtivoCheckedOnlyByLogin ==
    [][\A p \in Procs :
          /\ (Arrives(p) /\ req'[p].op \in {"start_round", "create_occurrence", "get_users"}
              /\ req'[p].tok \in tokens /\ now < req'[p].tok.exp) =>
                \A i \in UserIdx :
                    users[i].id = req'[p].tok.sub[1] =>
                        /\ req'[p].user.id = users[i].id
                        /\ IF req'[p].op = "get_users" /\ users[i].role = VIGILANTE
                           THEN req'[p].pc = "done" /\ req'[p].status = 403
                           ELSE req'[p].pc = FirstStep(req'[p].op)
          /\ (req[p].pc = "sr_insert" /\ Steps(p)) =>
                (Len(rounds') = Len(rounds) + 1 /\ req'[p].pc = "audit")
          /\ (req[p].pc = "co_insert" /\ Steps(p)) =>
                (Len(occurrences') = Len(occurrences) + 1 /\ req'[p].pc = "audit")
          /\ (req[p].pc \in {"audit", "gu_find"} /\ Steps(p)) =>
                (req'[p].pc = "done" /\ req'[p].status = 200)
          /\ (Arrives(p) /\ req'[p].op = "login") =>
                \A i \in UserIdx :
                    (users[i].email = req'[p].email /\ ~users[i].ativo) =>
                        (req'[p].pc = "done" /\ req'[p].status = 401)
      ]_vars

\* C21 witness: a vigilante whose ativo flag is false started a round with the
\* token issued before, the round stored and the request answered 200
C21_Witness ==
    /\ req[1].op = "start_round" /\ req[1].pc = "done" /\ req[1].status = 200
    /\ req[1].tok \in tokens /\ now < req[1].tok.exp
    /\ \E i \in UserIdx :
          /\ users[i].id = req[1].user.id
          /\ ~users[i].ativo
          /\ users[i].ultimo_login # None
    /\ \E k \in RoundIdx : rounds[k].id = req[1].rid /\ rounds[k].vigilante_id = req[1].user.id

\* C22: finish_round and finish_shift are unguarded transitions: for an
\* existing record and an authorized caller they succeed from any current
\* status, so finishing an already-completed Round (or inactive Shift)
\* answers 200 again, overwrites its end time with the later time and appends
\* another FINISH audit record; a finished Round or Shift never returns to an
\* active status.
C22_FinishUnguarded ==
    [][/\ \A p \in Procs :
           /\ (req[p].pc = "fr_find" /\ Steps(p)) =>
                 \A i \in RoundIdx :
                     (/\ rounds[i].id = req[p].rid
                      /\ \/ rounds[i].vigilante_id = req[p].user.id
                         \/ req[p].user.role \in {SUPERVISOR, ADMINISTRADOR}) =>
                         req'[p].pc = "fr_update"
           /\ (req[p].pc = "fr_update" /\ Steps(p)) =>
                 /\ req'[p].pc = "audit"
                 /\ \A i \in RoundIdx :
                       rounds[i].id = req[p].rid =>
                           (rounds'[i].status = CONCLUIDA /\ rounds'[i].fim = Some(now))
           /\ (req[p].pc = "fs_find" /\ Steps(p)) =>
                 \A i \in ShiftIdx :
                     (/\ shifts[i].id = req[p].rid
                      /\ \/ shifts[i].vigilante_id = req[p].user.id
                         \/ req[p].user.role \in {SUPERVISOR, ADMINISTRADOR}) =>
                         req'[p].pc = "fs_update"
           /\ (req[p].pc = "fs_update" /\ Steps(p)) =>
                 /\ req'[p].pc = "audit"
                 /\ \A i \in ShiftIdx :
                       shifts[i].id = req[p].rid =>
                           (shifts'[i].status = INATIVO /\ shifts'[i].fim = Some(now))
           /\ (req[p].op \in {"finish_round", "finish_shift"} /\ req[p].pc = "audit"
               /\ Steps(p)) =>
                 /\ req'[p].pc = "done" /\ req'[p].status = 200
                 /\ Len(audit_logs') = Len(audit_logs) + 1
                 /\ audit_logs'[Len(audit_logs')].acao =
                       (IF req[p].op = "finish_round" THEN "FINISH_ROUND" ELSE "FINISH_SHIFT")
       /\ \A i \in RoundIdx :
             rounds[i].status = CONCLUIDA =>
                 (Len(rounds') >= i /\ rounds'[i].id = rounds[i].id
                  /\ rounds'[i].status = CONCLUIDA)
       /\ \A i \in ShiftIdx :
             shifts[i].status = INATIVO =>
                 (Len(shifts') >= i /\ shifts'[i].id = shifts[i].id
                  /\ shifts'[i].status = INATIVO)
      ]_vars

\* C22 witness: a Round was finished twice at different times; the second
\* finish answered 200, the end time is the later one and the audit log
\* holds two FINISH_ROUND records
C22_Witness ==
    /\ req[1].op = "finish_round" /\ req[1].pc = "done" /\ req[1].status = 200
    /\ \E a, b \in 1..Len(audit_logs), i \in RoundIdx :
          /\ a < b
          /\ audit_logs[a].acao = "FINISH_ROUND" /\ audit_logs[b].acao = "FINISH_ROUND"
          /\ audit_logs[a].timestamp < audit_logs[b].timestamp
          /\ Len(rounds) = 1
          /\ rounds[i].id = req[1].rid
          /\ rounds[i].status = CONCLUIDA
          /\ rounds[i].fim # None
          /\ rounds[i].fim[1] > audit_logs[a].timestamp

ErrorStatus == {400, 401, 403, 404}

\* C23: every API request that is answered with an error status (400, 401,
\* 403 or 404) leaves all collections unchanged, because every handler
\* performs all of its checks before its first store write: the step that
\* answers the error writes nothing, no step before a handler's first write
\* writes, and once a handler has written it no longer answers an error.
C23_ErrorsWriteNothing ==
    [][\A p \in Procs :
          /\ (Steps(p) /\ req'[p].pc = "done" /\ req'[p].status \in ErrorStatus) =>
                /\ Collections' = Collections
                /\ req[p].pc # "audit"
                /\ Free(p) \/ req[p].pc \in {"rg_find", "cp_find", "ro_find", "up_find",
                                             "sr_check", "fr_find", "ss_check", "fs_find"}
          /\ (Steps(p) /\ req'[p].pc \in {"rg_find", "cp_find", "ro_find", "up_find",
                                          "sr_check", "fr_find", "ss_check", "fs_find"}) =>
                (Free(p) /\ Collections' = Collections)
          /\ (Steps(p) /\ Collections' # Collections) =>
                \/ req'[p].pc \in {"audit", "up_push", "ro_update"}
                \/ req'[p].pc = "done" /\ req'[p].status = 200
          /\ (Steps(p) /\ req[p].pc \in {"audit", "up_push", "ro_update"}) =>
                \/ req'[p].pc = "audit"
                \/ req'[p].pc = "done" /\ req'[p].status = 200
      ]_vars

\* C23 witness: a register request for a stored email was answered 400 by an
\* administrador's token, the users as seeded and the audit log holding only
\* the login
C23_Witness ==
    /\ req[1].op = "register" /\ req[1].pc = "done" /\ req[1].status = 400
    /\ req[1].user.role = ADMINISTRADOR
    /\ users = [Seeded.users EXCEPT ![1].ultimo_login = users[1].ultimo_login]
    /\ Len(audit_logs) = 1 /\ audit_logs[1].acao = "LOGIN"

====
